---------------------------- MODULE Spec2Model ----------------------------
(***************************************************************************)
(* Model of flux/cifile.py: the IdGenerator and the CiFile normalizer,     *)
(* run preparation (buildinfo, job evaluation, dependency pruning, id      *)
(* assignment) and the accessors get_cidict / convert_to_matrix.           *)
(*                                                                         *)
(* Python values are tagged records.  A Python str is the tuple of its     *)
(* characters, so that startswith, split, strip, substring tests and       *)
(* os.path.expandvars are computed and not assumed.  A Python dict is the  *)
(* sequence of its (key, value) items in insertion order.                  *)
(***************************************************************************)
EXTENDS Integers, Sequences, FiniteSets, TLC

(***************************************************************************)
(* Python values                                                           *)
(***************************************************************************)
PyNone == [t |-> "none"]
PyStr(cs) == [t |-> "str", s |-> cs]
PyInt(n) == [t |-> "int", n |-> n]
PyBool(b) == [t |-> "bool", b |-> b]
PyList(l) == [t |-> "list", l |-> l]
PyDict(items) == [t |-> "dict", m |-> items]

Item(k, v) == [k |-> k, v |-> v]

(***************************************************************************)
(* Python passes arguments by value: an operator that models a function    *)
(* binds each argument once (x \in {x_0}) and computes with the bound value.*)
(***************************************************************************)
\* isinstance(v, (str, int, bool, float))
IsScalar(v) == v.t \in {"str", "int", "bool"}

\* bool(v): Python truthiness
Truthy(v_0) ==
  CHOOSE value_0 \in {(
        CASE v.t = "none" -> FALSE
          [] v.t = "str" -> Len(v.s) > 0
          [] v.t = "int" -> v.n # 0
          [] v.t = "bool" -> v.b
          [] v.t = "list" -> Len(v.l) > 0
          [] v.t = "dict" -> Len(v.m) > 0
    ) : v \in {v_0}} : TRUE

(***************************************************************************)
(* Sequences                                                               *)
(***************************************************************************)
SeqContains(seq_0, x_0) ==
  CHOOSE value_0 \in {(
                             \E i \in 1..Len(seq) : seq[i] = x
    ) : seq \in {seq_0}, x \in {x_0}} : TRUE

Drop(seq_0, n_0) ==
  CHOOSE value_0 \in {(
                      SubSeq(seq, n + 1, Len(seq))
    ) : seq \in {seq_0}, n \in {n_0}} : TRUE

Take(seq, n) == SubSeq(seq, 1, n)

RECURSIVE Flatten(_)
Flatten(seqs_0) ==
  CHOOSE value_0 \in {(
                       IF seqs = <<>> THEN <<>> ELSE Head(seqs) \o Flatten(Tail(seqs))
    ) : seqs \in {seqs_0}} : TRUE

(***************************************************************************)
(* dict operations (insertion-ordered)                                     *)
(***************************************************************************)
HasKey(d_0, k_0) ==
  CHOOSE value_0 \in {(
                      \E i \in 1..Len(d) : d[i].k = k
    ) : d \in {d_0}, k \in {k_0}} : TRUE

Get(d_0, k_0) ==
  CHOOSE value_0 \in {(
                   d[CHOOSE i \in 1..Len(d) : d[i].k = k].v
    ) : d \in {d_0}, k \in {k_0}} : TRUE

\* d[k] = v: an existing key keeps its position, a new key goes last
Put(d_0, k_0, v_0) ==
  CHOOSE value_0 \in {(
        IF HasKey(d, k)
          THEN [i \in 1..Len(d) |-> IF d[i].k = k THEN Item(k, v) ELSE d[i]]
          ELSE Append(d, Item(k, v))
    ) : d \in {d_0}, k \in {k_0}, v \in {v_0}} : TRUE

\* del d[k] / d.pop(k)
Del(d, k) == SelectSeq(d, LAMBDA e : e.k # k)

DictKeys(d_0) ==
  CHOOSE value_0 \in {(
                     [i \in 1..Len(d) |-> d[i].k]
    ) : d \in {d_0}} : TRUE

KeySet(d_0) ==
  CHOOSE value_0 \in {(
                   {d[i].k : i \in 1..Len(d)}
    ) : d \in {d_0}} : TRUE

(***************************************************************************)
(* str operations, on tuples of characters                                 *)
(***************************************************************************)
Digits == <<"0", "1", "2", "3", "4", "5", "6", "7", "8", "9">>

LowerLetters == <<"a", "b", "c", "d", "e", "f", "g", "h", "i", "j", "k", "l", "m", "n", "o", "p", "q", "r", "s", "t", "u", "v", "w", "x", "y", "z">>

UpperLetters == <<"A", "B", "C", "D", "E", "F", "G", "H", "I", "J", "K", "L", "M", "N", "O", "P", "Q", "R", "S", "T", "U", "V", "W", "X", "Y", "Z">>

Whitespace == {" ", "\t", "\n", "\r"}

CharSet(cs_0) ==
  CHOOSE value_0 \in {(
                     {cs[i] : i \in 1..Len(cs)}
    ) : cs \in {cs_0}} : TRUE

AlnumChars == CharSet(Digits) \cup CharSet(LowerLetters) \cup CharSet(UpperLetters)

\* cs.lower()
Lower(cs_0) ==
  CHOOSE value_0 \in {(
        [i \in 1..Len(cs) |->
           IF cs[i] \in CharSet(UpperLetters)
             THEN LowerLetters[CHOOSE j \in 1..Len(UpperLetters) : UpperLetters[j] = cs[i]]
             ELSE cs[i]]
    ) : cs \in {cs_0}} : TRUE

\* cs.startswith(prefix)
StartsWith(cs_0, prefix_0) ==
  CHOOSE value_0 \in {(
        /\ Len(cs) >= Len(prefix)
        /\ Take(cs, Len(prefix)) = prefix
    ) : cs \in {cs_0}, prefix \in {prefix_0}} : TRUE

\* the least index >= from at which sub occurs in cs, 0 when there is none (str.find + 1)
Find(cs_0, sub_0, from_0) ==
  CHOOSE value_0 \in {(
        LET hits == {i \in from..(Len(cs) - Len(sub) + 1) : SubSeq(cs, i, i + Len(sub) - 1) = sub}
        IN IF hits = {} THEN 0 ELSE CHOOSE i \in hits : \A j \in hits : i <= j
    ) : cs \in {cs_0}, sub \in {sub_0}, from \in {from_0}} : TRUE

\* cs.split(sep), sep non-empty
RECURSIVE Split(_, _)
Split(cs_0, sep_0) ==
  CHOOSE value_0 \in {(
        LET i == Find(cs, sep, 1)
        IN IF i = 0 THEN <<cs>>
           ELSE <<Take(cs, i - 1)>> \o Split(Drop(cs, i - 1 + Len(sep)), sep)
    ) : cs \in {cs_0}, sep \in {sep_0}} : TRUE

RECURSIVE LStrip(_, _)
LStrip(cs_0, set_0) ==
  CHOOSE value_0 \in {(
        IF cs # <<>> /\ Head(cs) \in set THEN LStrip(Tail(cs), set) ELSE cs
    ) : cs \in {cs_0}, set \in {set_0}} : TRUE

RECURSIVE RStrip(_, _)
RStrip(cs_0, set_0) ==
  CHOOSE value_0 \in {(
        IF cs # <<>> /\ cs[Len(cs)] \in set THEN RStrip(Take(cs, Len(cs) - 1), set) ELSE cs
    ) : cs \in {cs_0}, set \in {set_0}} : TRUE

\* cs.strip() and cs.strip(chars)
Strip(cs_0, set_0) ==
  CHOOSE value_0 \in {(
                        RStrip(LStrip(cs, set), set)
    ) : cs \in {cs_0}, set \in {set_0}} : TRUE

\* str(n) for an int n >= 0
RECURSIVE IntToStr(_)
IntToStr(n_0) ==
  CHOOSE value_0 \in {(
        IF n < 10 THEN <<Digits[n + 1]>> ELSE IntToStr(n \div 10) \o <<Digits[(n % 10) + 1]>>
    ) : n \in {n_0}} : TRUE

\* str(v) for a scalar v
ToStr(v_0) ==
  CHOOSE value_0 \in {(
        CASE v.t = "str" -> v.s
          [] v.t = "int" -> IntToStr(v.n)
          [] v.t = "bool" -> IF v.b THEN <<"T", "r", "u", "e">> ELSE <<"F", "a", "l", "s", "e">>
    ) : v \in {v_0}} : TRUE

(***************************************************************************)
(* Keys                                                                    *)
(***************************************************************************)
PIPELINEKEY_SERVICES == PyStr(<<"s", "e", "r", "v", "i", "c", "e", "s">>)

PIPELINEKEY_IMAGE == PyStr(<<"i", "m", "a", "g", "e">>)

PIPELINEKEY_VARIABLES == PyStr(<<"v", "a", "r", "i", "a", "b", "l", "e", "s">>)

PIPELINEKEY_STAGES == PyStr(<<"s", "t", "a", "g", "e", "s">>)

PIPELINEKEY_BEFORE_SCRIPT == PyStr(<<"b", "e", "f", "o", "r", "e", "_", "s", "c", "r", "i", "p", "t">>)

PIPELINEKEY_AFTER_SCRIPT == PyStr(<<"a", "f", "t", "e", "r", "_", "s", "c", "r", "i", "p", "t">>)

JOBKEY_VARIABLES == PIPELINEKEY_VARIABLES

JOBKEY_ONLY == PyStr(<<"o", "n", "l", "y">>)

JOBKEY_TAGS == PyStr(<<"t", "a", "g", "s">>)

JOBKEY_STAGE == PyStr(<<"s", "t", "a", "g", "e">>)

JOBKEY_SCRIPT == PyStr(<<"s", "c", "r", "i", "p", "t">>)

JOBKEY_ARTIFACTS == PyStr(<<"a", "r", "t", "i", "f", "a", "c", "t", "s">>)

JOBKEY_DEPENDENCIES == PyStr(<<"d", "e", "p", "e", "n", "d", "e", "n", "c", "i", "e", "s">>)

JOBKEY_ARTIFACTS_NAME == PyStr(<<"n", "a", "m", "e">>)

JOBKEY_ARTIFACTS_PATHS == PyStr(<<"p", "a", "t", "h", "s">>)

JOBKEY_ARTIFACTS_EXPIRE_IN == PyStr(<<"e", "x", "p", "i", "r", "e", "_", "i", "n">>)

JOBKEY_ONLY_VARIABLES == PyStr(<<"v", "a", "r", "i", "a", "b", "l", "e", "s">>)

JOBKEY_ONLY_REFS == PyStr(<<"r", "e", "f", "s">>)

PIPELINES_KEYS ==
  {PIPELINEKEY_STAGES, PIPELINEKEY_IMAGE, PIPELINEKEY_BEFORE_SCRIPT,
   PIPELINEKEY_AFTER_SCRIPT, PIPELINEKEY_VARIABLES, PIPELINEKEY_SERVICES}

\* the configuration CiFile.__init__ keeps (its defaults)
default_stage == PyStr(<<"t", "e", "s", "t">>)

default_image == PyStr(<<"l", "o", "c", "a", "l", "_", "s", "y", "s", "t", "e", "m", "_", "s", "h", "e", "l", "l">>)

default_artifact_expire_in == PyStr(<<"3", " ", "d", "a", "y", "s">>)

default_artifact_name == PyStr(<<"$", "{", "C", "I", "_", "J", "O", "B", "_", "N", "A", "M", "E", "}", "_", "$", "{", "C", "I", "_", "C", "O", "M", "M", "I", "T", "_", "R", "E", "F", "_", "N", "A", "M", "E", "}", "_", "$", "{", "C", "I", "_", "J", "O", "B", "_", "I", "D", "}">>)

(***************************************************************************)
(* Outcomes: the value an operation leaves, and the exception it raised    *)
(***************************************************************************)
NoError == "none"

Ok(d) == [d |-> d, err |-> NoError]

Raise(d, e) == [d |-> d, err |-> e]

\* run step on the outcome of the previous one unless that one raised
Then(r, step(_)) ==
  CHOOSE out \in {IF x.err # NoError THEN x ELSE step(x.d) : x \in {r}} : TRUE

\* for jobname, job in self._cidict.items(): body(d, i) is one iteration
RECURSIVE ForItems(_, _, _)
ForItems(body(_, _), d, i) ==
  IF i > Len(d) THEN Ok(d)
  ELSE CHOOSE out \in {IF r.err # NoError THEN r ELSE ForItems(body, r.d, i + 1) :
                         r \in {body(d, i)}} : TRUE


(***************************************************************************)
(* Operators of Python on values of any type: x in c, c[x], c[x] = v,      *)
(* len(c).  Each gives the exception Python raises or the value.           *)
(***************************************************************************)
\* can "key in c" be evaluated (c is a container)?  key is a str.
InRaises(c) == c.t \in {"none", "int", "bool"}

\* key in c, for a str key and a container c
In(key_0, c_0) ==
  CHOOSE value_0 \in {(
        CASE c.t = "dict" -> HasKey(c.m, key)
          [] c.t = "list" -> SeqContains(c.l, key)
          [] c.t = "str" -> Find(c.s, key.s, 1) # 0
    ) : key \in {key_0}, c \in {c_0}} : TRUE

\* does c[key] raise, for a str key: only a dict that has the key gives a value
SubscriptError(c_0, key_0) ==
  CHOOSE value_0 \in {(
        IF c.t = "dict" THEN (IF HasKey(c.m, key) THEN NoError ELSE "KeyError") ELSE "TypeError"
    ) : c \in {c_0}, key \in {key_0}} : TRUE

\* does c[key] = v raise, for a str key
StoreError(c) == IF c.t = "dict" THEN NoError ELSE "TypeError"

\* job[key] = v on the job at position i of d (the job object is mutated in place)
SetField(d_0, i_0, key_0, v_0) ==
  CHOOSE value_0 \in {(
        [d EXCEPT ![i] = Item(d[i].k, PyDict(Put(d[i].v.m, key, v)))]
    ) : d \in {d_0}, i \in {i_0}, key \in {key_0}, v \in {v_0}} : TRUE

(***************************************************************************)
(* Coercion helpers                                                        *)
(***************************************************************************)
RECURSIVE ScalarStrs(_)
ScalarStrs(l_0) ==
  CHOOSE value_0 \in {(
        IF l = <<>> THEN <<>>
        ELSE (IF IsScalar(Head(l)) THEN <<PyStr(ToStr(Head(l)))>> ELSE <<>>) \o ScalarStrs(Tail(l))
    ) : l \in {l_0}} : TRUE

extract_str_list(obj_0, noneval_0) ==
  CHOOSE value_0 \in {(
        CASE obj.t = "none" -> noneval
          [] obj.t = "str" -> PyList(<<obj>>)
          [] obj.t \in {"int", "bool"} -> PyList(<<PyStr(ToStr(obj))>>)
          [] obj.t = "list" -> PyList(ScalarStrs(obj.l))
          [] OTHER -> noneval
    ) : obj \in {obj_0}, noneval \in {noneval_0}} : TRUE

extract_str(obj_0, noneval_0) ==
  CHOOSE value_0 \in {(
        CASE IsScalar(obj) -> PyStr(ToStr(obj))
          [] obj.t = "list" ->
               LET strs == SelectSeq(obj.l, LAMBDA o : o.t = "str")
               IN IF strs # <<>> THEN strs[1] ELSE noneval
          [] OTHER -> noneval
    ) : obj \in {obj_0}, noneval \in {noneval_0}} : TRUE

RECURSIVE StrItems(_)
StrItems(items_0) ==
  CHOOSE value_0 \in {(
        IF items = <<>> THEN <<>>
        ELSE LET value == extract_str(Head(items).v, PyNone)
             IN (IF Truthy(value) THEN <<Item(Head(items).k, value)>> ELSE <<>>) \o StrItems(Tail(items))
    ) : items \in {items_0}} : TRUE

\* a dict (as items); a value that is no dict gives {}
extract_str_dict(d_0) ==
  CHOOSE value_0 \in {(
                             IF d.t = "dict" THEN StrItems(d.m) ELSE <<>>
    ) : d \in {d_0}} : TRUE

IsJobKey(k) == k \notin PIPELINES_KEYS

(***************************************************************************)
(* The normalizer passes.  Each takes the items of self._cidict and gives  *)
(* an outcome: the items it leaves and the exception it raised, if any.    *)
(***************************************************************************)
_pipeline_various_tweaks(d) ==
  LET kept == SelectSeq(d, LAMBDA e : e.k.t = "str" /\ ~StartsWith(e.k.s, <<".">>))
      tmp == extract_str(IF HasKey(kept, PIPELINEKEY_IMAGE) THEN Get(kept, PIPELINEKEY_IMAGE)
                         ELSE default_image, default_image)
  IN Ok(Put(kept, PIPELINEKEY_IMAGE, IF tmp.t = "str" THEN tmp ELSE default_image))

\* is the value at position i a job with a dict body
IsDictJob(d_0, i_0) ==
  CHOOSE value_0 \in {(
                         IsJobKey(d[i].k) /\ d[i].v.t = "dict"
    ) : d \in {d_0}, i \in {i_0}} : TRUE

\* first loop of _job_scan_apply_stages: the stages seen on jobs are appended
RECURSIVE ScanStages(_, _, _)
ScanStages(d_0, i_0, stages_0) ==
  CHOOSE value_0 \in {(
        IF i > Len(d) THEN [stages |-> stages, err |-> NoError]
        ELSE IF IsDictJob(d, i) /\ HasKey(d[i].v.m, JOBKEY_STAGE)
          THEN LET stage == extract_str(Get(d[i].v.m, JOBKEY_STAGE), PyStr(<<>>))
               IN IF ~Truthy(stage) THEN ScanStages(d, i + 1, stages)
                  ELSE IF InRaises(stages) THEN [stages |-> stages, err |-> "TypeError"]
                  ELSE IF In(stage, stages) THEN ScanStages(d, i + 1, stages)
                  ELSE IF stages.t # "list" THEN [stages |-> stages, err |-> "AttributeError"]
                  ELSE ScanStages(d, i + 1, PyList(Append(stages.l, stage)))
          ELSE ScanStages(d, i + 1, stages)
    ) : d \in {d_0}, i \in {i_0}, stages \in {stages_0}} : TRUE

\* stages[0]
FirstOf(stages_0) ==
  CHOOSE value_0 \in {(
        CASE stages.t = "list" -> [v |-> stages.l[1], err |-> NoError]
          [] stages.t = "str" -> [v |-> PyStr(<<stages.s[1]>>), err |-> NoError]
          [] stages.t = "dict" ->
               IF HasKey(stages.m, PyInt(0)) THEN [v |-> Get(stages.m, PyInt(0)), err |-> NoError]
               ELSE [v |-> PyNone, err |-> "KeyError"]
          [] OTHER -> [v |-> PyNone, err |-> "TypeError"]
    ) : stages \in {stages_0}} : TRUE

\* second loop of _job_scan_apply_stages, one job
AssignStage(d_0, i_0, stages_0) ==
  CHOOSE value_0 \in {(
        IF ~IsDictJob(d, i) THEN Ok(d)
        ELSE LET first == FirstOf(stages)
             IN IF first.err # NoError THEN Raise(d, first.err)
                ELSE Ok(SetField(d, i, JOBKEY_STAGE,
                                 extract_str(IF HasKey(d[i].v.m, JOBKEY_STAGE)
                                               THEN Get(d[i].v.m, JOBKEY_STAGE) ELSE first.v,
                                             first.v)))
    ) : d \in {d_0}, i \in {i_0}, stages \in {stages_0}} : TRUE

RECURSIVE AssignStages(_, _, _)
AssignStages(d_0, i_0, stages_0) ==
  CHOOSE value_0 \in {(
        IF i > Len(d) THEN Ok(d)
        ELSE LET r == AssignStage(d, i, stages)
             IN IF r.err # NoError THEN r ELSE AssignStages(r.d, i + 1, stages)
    ) : d \in {d_0}, i \in {i_0}, stages \in {stages_0}} : TRUE

_job_scan_apply_stages(d_0) ==
  CHOOSE value_0 \in {(
        LET popped == IF HasKey(d, PIPELINEKEY_STAGES) THEN Get(d, PIPELINEKEY_STAGES) ELSE PyList(<<>>)
            d0 == Del(d, PIPELINEKEY_STAGES)
            scan == ScanStages(d0, 1, popped)
            stages == IF Truthy(scan.stages) THEN scan.stages ELSE PyList(<<default_stage>>)
            assigned == AssignStages(d0, 1, stages)
        IN IF scan.err # NoError THEN Raise(d0, scan.err)
           ELSE IF assigned.err # NoError THEN assigned
           ELSE Ok(Put(assigned.d, PIPELINEKEY_STAGES, stages))
    ) : d \in {d_0}} : TRUE

ListToScript(d_0, i_0) ==
  CHOOSE value_0 \in {(
        IF IsJobKey(d[i].k) /\ d[i].v.t = "list"
          THEN LET script == extract_str_list(d[i].v, PyNone)
               IN IF Truthy(script)
                    THEN Ok([d EXCEPT ![i] = Item(d[i].k, PyDict(<<Item(JOBKEY_SCRIPT, script)>>))])
                    ELSE Ok(d)
          ELSE Ok(d)
    ) : d \in {d_0}, i \in {i_0}} : TRUE

_job_convert_list_to_script(d) == ForItems(ListToScript, d, 1)

\* jobkey.replace('_', ':')
SyntheticJobName(jobkey_0) ==
  CHOOSE value_0 \in {(
        PyStr([i \in 1..Len(jobkey.s) |-> IF jobkey.s[i] = "_" THEN ":" ELSE jobkey.s[i]])
    ) : jobkey \in {jobkey_0}} : TRUE

\* len(v), for a value that has one
PyLen(v_0) ==
  CHOOSE value_0 \in {(
        CASE v.t = "str" -> Len(v.s)
          [] v.t = "list" -> Len(v.l)
          [] v.t = "dict" -> Len(v.m)
    ) : v \in {v_0}} : TRUE

\* one round of the loop of _job_convert_before_after_script
ConvertScript(d_0, jobkey_0) ==
  CHOOSE value_0 \in {(
        LET script == IF HasKey(d, jobkey) THEN Get(d, jobkey) ELSE PyList(<<>>)
            job == PyDict(<<Item(JOBKEY_STAGE, jobkey), Item(JOBKEY_SCRIPT, script)>>)
            d1 == Put(Del(d, jobkey), SyntheticJobName(jobkey), job)
            stages == Get(d1, PIPELINEKEY_STAGES)
        IN IF script.t \notin {"str", "list", "dict"} THEN Raise(d, "TypeError")
           ELSE IF PyLen(script) = 0 THEN Ok(d)
           ELSE IF stages.t # "list" THEN Raise(d1, "AttributeError")
           ELSE Ok(Put(d1, PIPELINEKEY_STAGES,
                       PyList(IF jobkey = PIPELINEKEY_BEFORE_SCRIPT
                                THEN <<jobkey>> \o stages.l
                                ELSE Append(stages.l, jobkey))))
    ) : d \in {d_0}, jobkey \in {jobkey_0}} : TRUE

_job_convert_before_after_script(d) ==
  Then(ConvertScript(d, PIPELINEKEY_BEFORE_SCRIPT),
       LAMBDA d1 : ConvertScript(d1, PIPELINEKEY_AFTER_SCRIPT))

\* job[key] if key in job else default, for a job body of any type
FieldOr(job_0, key_0, default_0) ==
  CHOOSE value_0 \in {(
        IF InRaises(job) THEN [v |-> PyNone, err |-> "TypeError"]
        ELSE IF ~In(key, job) THEN [v |-> default, err |-> NoError]
        ELSE IF SubscriptError(job, key) # NoError THEN [v |-> PyNone, err |-> SubscriptError(job, key)]
        ELSE [v |-> Get(job.m, key), err |-> NoError]
    ) : job \in {job_0}, key \in {key_0}, default \in {default_0}} : TRUE

\* job[key] = extract_str_list(job[key] if key in job else [], noneval=[])
ListField(d_0, i_0, key_0) ==
  CHOOSE value_0 \in {(
        LET tmp == FieldOr(d[i].v, key, PyList(<<>>))
        IN IF tmp.err # NoError THEN Raise(d, tmp.err)
           ELSE IF StoreError(d[i].v) # NoError THEN Raise(d, StoreError(d[i].v))
           ELSE Ok(SetField(d, i, key, extract_str_list(tmp.v, PyList(<<>>))))
    ) : d \in {d_0}, i \in {i_0}, key \in {key_0}} : TRUE

VariousTweaks(d_0, i_0) ==
  CHOOSE value_0 \in {(
        IF ~IsJobKey(d[i].k) THEN Ok(d)
        ELSE LET tags == ListField(d, i, JOBKEY_TAGS)
             IN IF tags.err # NoError THEN tags ELSE ListField(tags.d, i, JOBKEY_DEPENDENCIES)
    ) : d \in {d_0}, i \in {i_0}} : TRUE

_job_various_tweaks(d) == ForItems(VariousTweaks, d, 1)

ScriptAlwaysList(d_0, i_0) ==
  CHOOSE value_0 \in {(
        IF ~IsJobKey(d[i].k) THEN Ok(d)
        ELSE IF InRaises(d[i].v) \/ StoreError(d[i].v) # NoError THEN Raise(d, "TypeError")
        ELSE LET d1 == IF HasKey(d[i].v.m, JOBKEY_SCRIPT) THEN d
                       ELSE SetField(d, i, JOBKEY_SCRIPT, PyList(<<>>))
                 script == extract_str_list(Get(d1[i].v.m, JOBKEY_SCRIPT), PyList(<<>>))
             IN IF Truthy(script) THEN Ok(SetField(d1, i, JOBKEY_SCRIPT, script)) ELSE Ok(d1)
    ) : d \in {d_0}, i \in {i_0}} : TRUE

_job_script_always_list(d) == ForItems(ScriptAlwaysList, d, 1)

\* jvars[k] = v for every item of items, in order
RECURSIVE PutAll(_, _)
PutAll(jvars_0, items_0) ==
  CHOOSE value_0 \in {(
        IF items = <<>> THEN jvars
        ELSE PutAll(Put(jvars, Head(items).k, Head(items).v), Tail(items))
    ) : jvars \in {jvars_0}, items \in {items_0}} : TRUE

\* if not pvar in jvars: jvars[pvar] = gvalue, for every pipeline variable
RECURSIVE FillAll(_, _)
FillAll(jvars_0, pvars_0) ==
  CHOOSE value_0 \in {(
        IF pvars = <<>> THEN jvars
        ELSE FillAll(IF HasKey(jvars, Head(pvars).k) THEN jvars
                     ELSE Put(jvars, Head(pvars).k, Head(pvars).v), Tail(pvars))
    ) : jvars \in {jvars_0}, pvars \in {pvars_0}} : TRUE

\* the variables one job gets: its own, then the pipeline's where it has none,
\* then the forced ones, then the injected ones
CombinedVariables(job_0, pvars_0, forced_0, injectdict_0) ==
  CHOOSE value_0 \in {(
        LET jvars == extract_str_dict(IF HasKey(job.m, JOBKEY_VARIABLES)
                                        THEN Get(job.m, JOBKEY_VARIABLES) ELSE PyDict(<<>>))
        IN PutAll(PutAll(FillAll(jvars, pvars), extract_str_dict(forced)), injectdict)
    ) : job \in {job_0}, pvars \in {pvars_0}, forced \in {forced_0}, injectdict \in {injectdict_0}} : TRUE

RECURSIVE CombineJobs(_, _, _, _, _)
CombineJobs(d_0, i_0, pvars_0, forced_0, injectdict_0) ==
  CHOOSE value_0 \in {(
        IF i > Len(d) THEN d
        ELSE CombineJobs(IF IsDictJob(d, i)
                           THEN SetField(d, i, JOBKEY_VARIABLES,
                                         PyDict(CombinedVariables(d[i].v, pvars, forced, injectdict)))
                           ELSE d,
                         i + 1, pvars, forced, injectdict)
    ) : d \in {d_0}, i \in {i_0}, pvars \in {pvars_0}, forced \in {forced_0}, injectdict \in {injectdict_0}} : TRUE

\* forced is self._forced_variables
_job_combine_variables(d_0, forced_0, injectdict_0) ==
  CHOOSE value_0 \in {(
        LET pvars == extract_str_dict(IF HasKey(d, PIPELINEKEY_VARIABLES)
                                        THEN Get(d, PIPELINEKEY_VARIABLES) ELSE PyDict(<<>>))
            d1 == Put(d, PIPELINEKEY_VARIABLES, PyDict(pvars))
        IN Ok(Del(CombineJobs(d1, 1, pvars, forced, injectdict), PIPELINEKEY_VARIABLES))
    ) : d \in {d_0}, forced \in {forced_0}, injectdict \in {injectdict_0}} : TRUE

\* extract_str_list(only[key]) if key in only, for an only of any type
OnlyPart(only_0, key_0) ==
  CHOOSE value_0 \in {(
        IF InRaises(only) THEN [l |-> <<>>, err |-> "TypeError"]
        ELSE IF ~In(key, only) THEN [l |-> <<>>, err |-> NoError]
        ELSE IF SubscriptError(only, key) # NoError THEN [l |-> <<>>, err |-> SubscriptError(only, key)]
        ELSE [l |-> extract_str_list(Get(only.m, key), PyList(<<>>)).l, err |-> NoError]
    ) : only \in {only_0}, key \in {key_0}} : TRUE

StreamlineOnly(d_0, i_0) ==
  CHOOSE value_0 \in {(
        IF ~IsJobKey(d[i].k) THEN Ok(d)
        ELSE LET d1 == IF HasKey(d[i].v.m, JOBKEY_ONLY) THEN d
                       ELSE SetField(d, i, JOBKEY_ONLY, PyDict(<<>>))
                 only == Get(d1[i].v.m, JOBKEY_ONLY)
                 tmp == extract_str_list(only, PyList(<<>>)).l
                 variables == OnlyPart(only, JOBKEY_ONLY_VARIABLES)
                 refs == OnlyPart(only, JOBKEY_ONLY_REFS)
                 found == SelectSeq(tmp \o variables.l \o refs.l,
                                    LAMBDA v : v # JOBKEY_ONLY_REFS /\ v # JOBKEY_ONLY_VARIABLES)
             IN IF variables.err # NoError THEN Raise(d1, variables.err)
                ELSE IF refs.err # NoError THEN Raise(d1, refs.err)
                ELSE Ok(SetField(d1, i, JOBKEY_ONLY, PyDict(<<
                       Item(JOBKEY_ONLY_REFS,
                            PyList(SelectSeq(found, LAMBDA v : ~StartsWith(v.s, <<"$">>)))),
                       Item(JOBKEY_ONLY_VARIABLES,
                            PyList(SelectSeq(found, LAMBDA v : StartsWith(v.s, <<"$">>))))>>)))
    ) : d \in {d_0}, i \in {i_0}} : TRUE

_job_streamline_only(d) == ForItems(StreamlineOnly, d, 1)

\* the expire_in of a declared artifacts record a: line 359 reads a[name]
DeclaredExpireIn(a_0) ==
  CHOOSE value_0 \in {(
        IF InRaises(a) THEN [v |-> PyNone, err |-> "TypeError"]
        ELSE IF ~In(JOBKEY_ARTIFACTS_EXPIRE_IN, a) THEN [v |-> default_artifact_expire_in, err |-> NoError]
        ELSE IF SubscriptError(a, JOBKEY_ARTIFACTS_NAME) # NoError
          THEN [v |-> PyNone, err |-> SubscriptError(a, JOBKEY_ARTIFACTS_NAME)]
        ELSE [v |-> Get(a.m, JOBKEY_ARTIFACTS_NAME), err |-> NoError]
    ) : a \in {a_0}} : TRUE

StreamlineArtifacts(d_0, i_0) ==
  CHOOSE value_0 \in {(
        IF ~IsJobKey(d[i].k) THEN Ok(d)
        ELSE IF ~HasKey(d[i].v.m, JOBKEY_ARTIFACTS)
          THEN Ok(SetField(d, i, JOBKEY_ARTIFACTS, PyDict(<<
                  Item(JOBKEY_ARTIFACTS_NAME, default_artifact_name),
                  Item(JOBKEY_ARTIFACTS_EXPIRE_IN, default_artifact_expire_in),
                  Item(JOBKEY_ARTIFACTS_PATHS, PyList(<<>>))>>)))
        ELSE LET a == Get(d[i].v.m, JOBKEY_ARTIFACTS)
                 listed == IF a.t = "list" THEN extract_str_list(a, PyList(<<>>)) ELSE PyList(<<>>)
                 paths == FieldOr(a, JOBKEY_ARTIFACTS_PATHS, PyNone)
                 name == FieldOr(a, JOBKEY_ARTIFACTS_NAME, default_artifact_name)
                 expire_in == DeclaredExpireIn(a)
             IN IF paths.err # NoError THEN Raise(d, paths.err)
                ELSE IF name.err # NoError THEN Raise(d, name.err)
                ELSE IF expire_in.err # NoError THEN Raise(d, expire_in.err)
                ELSE Ok(SetField(d, i, JOBKEY_ARTIFACTS, PyDict(<<
                       Item(JOBKEY_ARTIFACTS_NAME, name.v),
                       Item(JOBKEY_ARTIFACTS_EXPIRE_IN, expire_in.v),
                       Item(JOBKEY_ARTIFACTS_PATHS,
                            IF In(JOBKEY_ARTIFACTS_PATHS, a)
                              THEN extract_str_list(paths.v, PyList(<<>>)) ELSE listed)>>)))
    ) : d \in {d_0}, i \in {i_0}} : TRUE

_job_streamline_artifacts(d) == ForItems(StreamlineArtifacts, d, 1)

\* the passes of _parse_cidict after the type test, in the order of the code
NormalizePasses(d, forced) ==
  LET CombineVariables(x) == _job_combine_variables(x, forced, <<>>)
  IN Then(Then(Then(Then(Then(Then(Then(Then(Then(
       _pipeline_various_tweaks(d),
       _job_scan_apply_stages),
       _job_convert_list_to_script),
       _job_scan_apply_stages),
       _job_convert_before_after_script),
       _job_various_tweaks),
       _job_script_always_list),
       CombineVariables),
       _job_streamline_only),
       _job_streamline_artifacts)

\* cidict is the argument, old the items of self._cidict before the call
_parse_cidict(cidict_0, old_0, forced_0) ==
  CHOOSE value_0 \in {(
        IF cidict.t # "dict" THEN Raise(old, "TypeError") ELSE NormalizePasses(cidict.m, forced)
    ) : cidict \in {cidict_0}, old \in {old_0}, forced \in {forced_0}} : TRUE

\* read_cifile(dictionary=dictionary)
read_cifile(dictionary_0, old_0, forced_0) ==
  CHOOSE value_0 \in {(
        IF Truthy(dictionary) THEN _parse_cidict(dictionary, old, forced) ELSE Ok(old)
    ) : dictionary \in {dictionary_0}, old \in {old_0}, forced \in {forced_0}} : TRUE

(***************************************************************************)
(* Run preparation                                                         *)
(***************************************************************************)
\* re.sub('[^0-9a-zA-Z]+', '-', cs): every run of other characters becomes one '-'
RECURSIVE CollapseNonAlnum(_)
CollapseNonAlnum(cs_0) ==
  CHOOSE value_0 \in {(
        IF cs = <<>> THEN <<>>
        ELSE IF Head(cs) \in AlnumChars THEN <<Head(cs)>> \o CollapseNonAlnum(Tail(cs))
        ELSE IF Len(cs) > 1 /\ cs[2] \notin AlnumChars THEN CollapseNonAlnum(Tail(cs))
        ELSE <<"-">> \o CollapseNonAlnum(Tail(cs))
    ) : cs \in {cs_0}} : TRUE

SlugLength == 63

DescriptionLimit == 100

RefSlug(ref) ==
  LET sub == CollapseNonAlnum(Lower(ref))
  IN Strip(Take(sub, IF Len(sub) < SlugLength THEN Len(sub) ELSE SlugLength), {"-"})

TriggerSources == {<<"t", "r", "i", "g", "g", "e", "r">>, <<"a", "p", "i">>, <<"p", "i", "p", "e", "l", "i", "n", "e">>, <<"s", "c", "h", "e", "d", "u", "l", "e">>, <<"w", "e", "b">>}

\* the dict pd of _pipeline_add_buildinfo; every argument is a str, the tag a str or None
BuildInfo(ref_0, source_0, message_0, sha_0, tag_0) ==
  CHOOSE value_0 \in {(
        <<Item(PyStr(<<"C", "I">>), PyBool(TRUE)),
          Item(PyStr(<<"C", "I", "_", "C", "O", "M", "M", "I", "T", "_", "R", "E", "F", "_", "N", "A", "M", "E">>), PyStr(ref)),
          Item(PyStr(<<"C", "I", "_", "P", "I", "P", "E", "L", "I", "N", "E", "_", "S", "O", "U", "R", "C", "E">>), PyStr(source)),
          Item(PyStr(<<"C", "I", "_", "C", "O", "M", "M", "I", "T", "_", "M", "E", "S", "S", "A", "G", "E">>), PyStr(message)),
          Item(PyStr(<<"C", "I", "_", "C", "O", "M", "M", "I", "T", "_", "S", "H", "A">>), PyStr(sha)),
          Item(PyStr(<<"C", "I", "_", "C", "O", "M", "M", "I", "T", "_", "R", "E", "F", "_", "S", "L", "U", "G">>), PyStr(RefSlug(ref))),
          Item(PyStr(<<"C", "I", "_", "C", "O", "M", "M", "I", "T", "_", "T", "I", "T", "L", "E">>), PyStr(Split(message, <<"\n">>)[1])),
          Item(PyStr(<<"C", "I", "_", "C", "O", "M", "M", "I", "T", "_", "D", "E", "S", "C", "R", "I", "P", "T", "I", "O", "N">>), PyStr(IF Len(message) < DescriptionLimit THEN message
                     ELSE IF Find(message, <<"\n">>, 1) = 0 THEN message
                     ELSE Drop(message, Find(message, <<"\n">>, 1)))),
          Item(PyStr(<<"C", "I", "_", "P", "I", "P", "E", "L", "I", "N", "E", "_", "T", "R", "I", "G", "G", "E", "R", "E", "D">>), PyBool(source \in TriggerSources))>>
        \o (IF Truthy(tag) THEN <<Item(PyStr(<<"C", "I", "_", "C", "O", "M", "M", "I", "T", "_", "T", "A", "G">>), tag)>> ELSE <<>>)
    ) : ref \in {ref_0}, source \in {source_0}, message \in {message_0}, sha \in {sha_0}, tag \in {tag_0}} : TRUE

AddJobVariables(d_0, i_0) ==
  CHOOSE value_0 \in {(
        IF ~IsDictJob(d, i) THEN Ok(d)
        ELSE IF ~HasKey(d[i].v.m, JOBKEY_STAGE) THEN Raise(d, "KeyError")
        ELSE LET jvars == extract_str_dict(IF HasKey(d[i].v.m, JOBKEY_VARIABLES)
                                             THEN Get(d[i].v.m, JOBKEY_VARIABLES) ELSE PyDict(<<>>))
             IN Ok(SetField(d, i, JOBKEY_VARIABLES,
                            PyDict(Put(Put(jvars, PyStr(<<"C", "I", "_", "J", "O", "B", "_", "N", "A", "M", "E">>), d[i].k),
                                       PyStr(<<"C", "I", "_", "J", "O", "B", "_", "S", "T", "A", "G", "E">>), Get(d[i].v.m, JOBKEY_STAGE)))))
    ) : d \in {d_0}, i \in {i_0}} : TRUE

_pipeline_add_buildinfo(d, forced, ref, source, message, sha, tag) ==
  ForItems(AddJobVariables,
           _job_combine_variables(d, forced, BuildInfo(ref, source, message, sha, tag)).d, 1)

\* the longest run of \w characters cs starts with
RECURSIVE WordPrefix(_)
WordPrefix(cs_0) ==
  CHOOSE value_0 \in {(
        IF cs # <<>> /\ Head(cs) \in AlnumChars \cup {"_"} THEN <<Head(cs)>> \o WordPrefix(Tail(cs)) ELSE <<>>
    ) : cs \in {cs_0}} : TRUE

\* os.path.expandvars(cs) over the environment env (a function from names to values):
\* $NAME and ${NAME} become the value of NAME; a reference to a name the
\* environment does not have stays as it is written
RECURSIVE expandvars(_, _)
expandvars(cs_0, env_0) ==
  CHOOSE value_0 \in {(
        IF cs = <<>> THEN <<>>
        ELSE IF Head(cs) # "$" THEN <<Head(cs)>> \o expandvars(Tail(cs), env)
        ELSE LET rest == Tail(cs)
                 word == WordPrefix(rest)
                 close == Find(rest, <<"}">>, 1)
                 braced == rest # <<>> /\ Head(rest) = "{" /\ close # 0
                 name == IF word # <<>> THEN word ELSE SubSeq(rest, 2, close - 1)
                 used == IF word # <<>> THEN Len(word) ELSE close
             IN IF word = <<>> /\ ~braced THEN <<"$">> \o expandvars(rest, env)
                ELSE (IF name \in DOMAIN env THEN env[name] ELSE <<"$">> \o Take(rest, used))
                     \o expandvars(Drop(rest, used), env)
    ) : cs \in {cs_0}, env \in {env_0}} : TRUE

\* does one condition of only.variables match, under the environment env
ConditionMatches(condition_0, env_0) ==
  CHOOSE value_0 \in {(
        LET split == Split(condition, <<"=", "=">>)
            left == expandvars(Strip(Strip(split[1], Whitespace), {"\""}), env)
            hasRight == Len(split) > 1
            right == IF hasRight THEN Strip(Strip(expandvars(split[2], env), Whitespace), {"\""}) ELSE <<>>
        IN \/ left # <<>> /\ ~hasRight
           \/ left # <<>> /\ hasRight /\ right = <<>>
           \/ hasRight /\ SeqContains(left, "$") /\ right \in {<<"n", "u", "l", "l">>, <<"n", "i", "l">>, <<"N", "o", "n", "e">>}
           \/ hasRight /\ right # <<>> /\ left = right
    ) : condition \in {condition_0}, env \in {env_0}} : TRUE

\* os.environ[jvar] = jvalue for the items of a job's variables, in order
RECURSIVE PutEnv(_, _)
PutEnv(env_0, items_0) ==
  CHOOSE value_0 \in {(
        IF items = <<>> THEN [env |-> env, err |-> NoError]
        ELSE LET k == Head(items).k
                 v == Head(items).v
             IN IF k.t # "str" \/ v.t # "str" THEN [env |-> env, err |-> "TypeError"]
                ELSE IF SeqContains(k.s, "=") THEN [env |-> env, err |-> "ValueError"]
                ELSE IF k.s = <<>> THEN [env |-> env, err |-> "OSError"]
                ELSE PutEnv((k.s :> v.s) @@ env, Tail(items))
    ) : env \in {env_0}, items \in {items_0}} : TRUE

\* a job_run_ref_ok that takes a job with no ref as unrestricted, whatever
\* its only.variables holds
RefOkWithoutRefs(job_0) ==
  CHOOSE value_0 \in {(
        LET only == Get(job.m, JOBKEY_ONLY).m
            refs == Get(only, JOBKEY_ONLY_REFS).l
            jvars == Get(job.m, JOBKEY_VARIABLES).m
            plain == SelectSeq(refs, LAMBDA r : r.s \notin {<<"t", "a", "g", "s">>, <<"t", "r", "i", "g", "g", "e", "r", "s">>})
        IN IF plain # <<>> /\ ~HasKey(jvars, PyStr(<<"C", "I", "_", "C", "O", "M", "M", "I", "T", "_", "R", "E", "F", "_", "N", "A", "M", "E">>))
             THEN [ok |-> FALSE, err |-> "KeyError"]
             ELSE [ok |-> \/ refs = <<>>
                          \/ /\ SeqContains(refs, PyStr(<<"t", "r", "i", "g", "g", "e", "r", "s">>))
                             /\ Truthy(Get(jvars, PyStr(<<"C", "I", "_", "P", "I", "P", "E", "L", "I", "N", "E", "_", "T", "R", "I", "G", "G", "E", "R", "E", "D">>)))
                          \/ /\ SeqContains(refs, PyStr(<<"t", "a", "g", "s">>))
                             /\ HasKey(jvars, PyStr(<<"C", "I", "_", "C", "O", "M", "M", "I", "T", "_", "T", "A", "G">>))
                          \/ \E i \in 1..Len(plain) :
                               Get(jvars, PyStr(<<"C", "I", "_", "C", "O", "M", "M", "I", "T", "_", "R", "E", "F", "_", "N", "A", "M", "E">>)) = plain[i],
                   err |-> NoError]
    ) : job \in {job_0}} : TRUE

\* job_run_ref_ok of one job; KeyError when CI_COMMIT_REF_NAME is looked up and missing
RefOk(job_0) ==
  CHOOSE value_0 \in {(
        LET only == Get(job.m, JOBKEY_ONLY).m
            refs == Get(only, JOBKEY_ONLY_REFS).l
            conds == Get(only, JOBKEY_ONLY_VARIABLES).l
            jvars == Get(job.m, JOBKEY_VARIABLES).m
            plain == SelectSeq(refs, LAMBDA r : r.s \notin {<<"t", "a", "g", "s">>, <<"t", "r", "i", "g", "g", "e", "r", "s">>})
        IN IF plain # <<>> /\ ~HasKey(jvars, PyStr(<<"C", "I", "_", "C", "O", "M", "M", "I", "T", "_", "R", "E", "F", "_", "N", "A", "M", "E">>))
             THEN [ok |-> FALSE, err |-> "KeyError"]
             ELSE [ok |-> \/ refs = <<>> /\ conds = <<>>
                          \/ /\ SeqContains(refs, PyStr(<<"t", "r", "i", "g", "g", "e", "r", "s">>))
                             /\ Truthy(Get(jvars, PyStr(<<"C", "I", "_", "P", "I", "P", "E", "L", "I", "N", "E", "_", "T", "R", "I", "G", "G", "E", "R", "E", "D">>)))
                          \/ /\ SeqContains(refs, PyStr(<<"t", "a", "g", "s">>))
                             /\ HasKey(jvars, PyStr(<<"C", "I", "_", "C", "O", "M", "M", "I", "T", "_", "T", "A", "G">>))
                          \/ \E i \in 1..Len(plain) :
                               Get(jvars, PyStr(<<"C", "I", "_", "C", "O", "M", "M", "I", "T", "_", "R", "E", "F", "_", "N", "A", "M", "E">>)) = plain[i],
                   err |-> NoError]
    ) : job \in {job_0}} : TRUE

\* job_run_script of one job
ScriptOk(job_0) ==
  CHOOSE value_0 \in {(
        \/ HasKey(job.m, JOBKEY_SCRIPT) /\ Truthy(Get(job.m, JOBKEY_SCRIPT))
        \/ /\ HasKey(job.m, JOBKEY_DEPENDENCIES) /\ Truthy(Get(job.m, JOBKEY_DEPENDENCIES))
           /\ HasKey(job.m, JOBKEY_ARTIFACTS) /\ Truthy(Get(job.m, JOBKEY_ARTIFACTS))
    ) : job \in {job_0}} : TRUE

\* job_run_ref_variables of one job, its conditions expanded under env
VariablesOk(job, env) ==
  LET conds == Get(Get(job.m, JOBKEY_ONLY).m, JOBKEY_ONLY_VARIABLES).l
  IN \/ conds = <<>>
     \/ \E i \in 1..Len(conds) : ConditionMatches(conds[i].s, env)

\* the first loop of _evaluate_jobs from position i on: the environment it leaves
\* and the names in jobs_to_remove
RECURSIVE EvaluateLoop(_, _, _, _)
EvaluateLoop(d_0, i_0, env_0, remove_0) ==
  CHOOSE value_0 \in {(
        IF i > Len(d) THEN [env |-> env, remove |-> remove, err |-> NoError]
        ELSE IF ~IsDictJob(d, i) THEN EvaluateLoop(d, i + 1, env, remove)
        ELSE LET put == PutEnv(env, Get(d[i].v.m, JOBKEY_VARIABLES).m)
                 ref == RefOk(d[i].v)
                 run == ref.ok /\ VariablesOk(d[i].v, put.env) /\ ScriptOk(d[i].v)
             IN IF put.err # NoError THEN [env |-> put.env, remove |-> remove, err |-> put.err]
                ELSE IF ref.err # NoError THEN [env |-> put.env, remove |-> remove, err |-> ref.err]
                ELSE EvaluateLoop(d, i + 1, put.env, IF run THEN remove ELSE remove \cup {d[i].k})
    ) : d \in {d_0}, i \in {i_0}, env \in {env_0}, remove \in {remove_0}} : TRUE

\* has the job at position i a dependency that is no key of d
MissesDependency(d_0, i_0) ==
  CHOOSE value_0 \in {(
        /\ IsDictJob(d, i)
        /\ \E j \in 1..Len(Get(d[i].v.m, JOBKEY_DEPENDENCIES).l) :
             ~HasKey(d, Get(d[i].v.m, JOBKEY_DEPENDENCIES).l[j])
    ) : d \in {d_0}, i \in {i_0}} : TRUE

\* a scan that records the dependency that is missing where the code records
\* the job that misses it
RemovedDependency(d_0) ==
  CHOOSE value_0 \in {(
        LET missing == {i \in 1..Len(d) : MissesDependency(d, i)}
            job == d[CHOOSE i \in missing : \A j \in missing : j <= i].v.m
            deps == Get(job, JOBKEY_DEPENDENCIES).l
        IN IF missing = {} THEN PyBool(FALSE)
           ELSE deps[CHOOSE j \in 1..Len(deps) : ~HasKey(d, deps[j])]
    ) : d \in {d_0}} : TRUE

\* removedsomething after one scan: the last job that misses a dependency, or False
RemovedSomething(d_0) ==
  CHOOSE value_0 \in {(
        LET missing == {i \in 1..Len(d) : MissesDependency(d, i)}
        IN IF missing = {} THEN PyBool(FALSE)
           ELSE d[CHOOSE i \in missing : \A j \in missing : j <= i].k
    ) : d \in {d_0}} : TRUE

\* the dict rebuilt from the items of d whose key is a str and none of names
WithoutJobs(d, names) == SelectSeq(d, LAMBDA e : e.k.t = "str" /\ e.k \notin names)

\* the while loop of _evaluate_jobs
RECURSIVE PruneDependencies(_)
PruneDependencies(d_0) ==
  CHOOSE value_0 \in {(
        LET removedsomething == RemovedSomething(d)
        IN IF ~Truthy(removedsomething) THEN d
           ELSE PruneDependencies(WithoutJobs(d, {removedsomething}))
    ) : d \in {d_0}} : TRUE

\* _evaluate_jobs after its first loop: the jobs in jobs_to_remove go, then the
\* jobs that miss a dependency
RemoveJobs(d_0, loop_0) ==
  CHOOSE value_0 \in {(
        IF loop.err # NoError
          THEN [d |-> d, env |-> loop.env, err |-> loop.err, remove |-> loop.remove]
          ELSE [d |-> PruneDependencies(WithoutJobs(d, loop.remove)),
                env |-> loop.env, err |-> NoError, remove |-> loop.remove]
    ) : d \in {d_0}, loop \in {loop_0}} : TRUE

\* gives the items left, the process environment left, the exception raised and
\* the names that were in jobs_to_remove
_evaluate_jobs(d_0, env_0) ==
  CHOOSE value_0 \in {(
                                RemoveJobs(d, EvaluateLoop(d, 1, env, {}))
    ) : d \in {d_0}, env \in {env_0}} : TRUE

(***************************************************************************)
(* The matrix view and id assignment                                       *)
(***************************************************************************)
\* the values "for stage in stages" goes through; TypeError when stages cannot be iterated
StageSeq(stages_0) ==
  CHOOSE value_0 \in {(
        CASE stages.t = "list" -> [l |-> stages.l, err |-> NoError]
          [] stages.t = "str" -> [l |-> [i \in 1..Len(stages.s) |-> PyStr(<<stages.s[i]>>)], err |-> NoError]
          [] stages.t = "dict" -> [l |-> DictKeys(stages.m), err |-> NoError]
          [] OTHER -> [l |-> <<>>, err |-> "TypeError"]
    ) : stages \in {stages_0}} : TRUE

\* the names of the jobs convert_to_matrix puts in the group of one stage
StageGroup(d, stage) ==
  LET jobs == SelectSeq(d, LAMBDA e : IsJobKey(e.k) /\ e.v.t = "dict"
                                        /\ Get(e.v.m, JOBKEY_STAGE) = stage)
  IN DictKeys(jobs)

\* convert_to_matrix: stages is self._cidict[stages] itself, and a group holds the
\* job objects of self._cidict themselves, so the matrix is kept as the names of
\* the jobs of each group and is read through the items d it refers to
convert_to_matrix(d_0) ==
  CHOOSE value_0 \in {(
        IF ~HasKey(d, PIPELINEKEY_STAGES) \/ ~HasKey(d, PIPELINEKEY_IMAGE)
          THEN [jobs |-> <<>>, err |-> "KeyError"]
        ELSE LET stages == StageSeq(Get(d, PIPELINEKEY_STAGES))
             IN IF stages.err # NoError THEN [jobs |-> <<>>, err |-> stages.err]
                ELSE [jobs |-> [i \in 1..Len(stages.l) |-> StageGroup(d, stages.l[i])],
                      err |-> NoError]
    ) : d \in {d_0}} : TRUE

\* the loop of _assign_ids over the job names in visiting order
RECURSIVE AssignJobIds(_, _, _, _)
AssignJobIds(d_0, names_0, pipeline_id_0, last_job_id_0) ==
  CHOOSE value_0 \in {(
        IF names = <<>> THEN [d |-> d, last_job_id |-> last_job_id]
        ELSE LET job == Get(d, Head(names))
                 jvars == extract_str_dict(IF HasKey(job.m, JOBKEY_VARIABLES)
                                             THEN Get(job.m, JOBKEY_VARIABLES) ELSE PyDict(<<>>))
                 withIds == Put(Put(jvars, PyStr(<<"C", "I", "_", "P", "I", "P", "E", "L", "I", "N", "E", "_", "I", "D">>), PyStr(IntToStr(pipeline_id))),
                                PyStr(<<"C", "I", "_", "J", "O", "B", "_", "I", "D">>), PyStr(IntToStr(last_job_id + 1)))
             IN AssignJobIds(Put(d, Head(names), PyDict(Put(job.m, JOBKEY_VARIABLES, PyDict(withIds)))),
                             Tail(names), pipeline_id, last_job_id + 1)
    ) : d \in {d_0}, names \in {names_0}, pipeline_id \in {pipeline_id_0}, last_job_id \in {last_job_id_0}} : TRUE

\* gives the items left, the two counters of the id generator and the exception raised
_assign_ids(d_0, job_id_0, pipeline_id_0) ==
  CHOOSE value_0 \in {(
        LET matrix == convert_to_matrix(d)
            done == AssignJobIds(d, Flatten(matrix.jobs), pipeline_id + 1, job_id)
        IN IF matrix.err # NoError
             THEN [d |-> d, last_job_id |-> job_id, last_pipeline_id |-> pipeline_id + 1,
                   err |-> matrix.err]
             ELSE [d |-> done.d, last_job_id |-> done.last_job_id,
                   last_pipeline_id |-> pipeline_id + 1, err |-> NoError]
    ) : d \in {d_0}, job_id \in {job_id_0}, pipeline_id \in {pipeline_id_0}} : TRUE

\* prepare_run_with from self._assign_ids() on: eval is what _evaluate_jobs gave
\* for the items evaluated
PrepareAssign(evaluated_0, eval_0, ids_0) ==
  CHOOSE value_0 \in {(
        [d |-> ids.d, env |-> eval.env, last_job_id |-> ids.last_job_id,
         last_pipeline_id |-> ids.last_pipeline_id, err |-> ids.err,
         evaluated |-> evaluated, remove |-> eval.remove]
    ) : evaluated \in {evaluated_0}, eval \in {eval_0}, ids \in {ids_0}} : TRUE

\* prepare_run_with from self._evaluate_jobs() on
PrepareEvaluate(evaluated_0, eval_0, job_id_0, pipeline_id_0) ==
  CHOOSE value_0 \in {(
        IF eval.err # NoError
          THEN [d |-> eval.d, env |-> eval.env, last_job_id |-> job_id,
                last_pipeline_id |-> pipeline_id, err |-> eval.err,
                evaluated |-> evaluated, remove |-> eval.remove]
          ELSE PrepareAssign(evaluated, eval, _assign_ids(eval.d, job_id, pipeline_id))
    ) : evaluated \in {evaluated_0}, eval \in {eval_0}, job_id \in {job_id_0}, pipeline_id \in {pipeline_id_0}} : TRUE

\* prepare_run_with after self._pipeline_add_buildinfo(...), which gave info
PrepareInfo(info_0, env_0, job_id_0, pipeline_id_0) ==
  CHOOSE value_0 \in {(
        IF info.err # NoError
          THEN [d |-> info.d, env |-> env, last_job_id |-> job_id,
                last_pipeline_id |-> pipeline_id, err |-> info.err,
                evaluated |-> <<>>, remove |-> {}]
          ELSE PrepareEvaluate(info.d, _evaluate_jobs(info.d, env), job_id, pipeline_id)
    ) : info \in {info_0}, env \in {env_0}, job_id \in {job_id_0}, pipeline_id \in {pipeline_id_0}} : TRUE

\* prepare_run_with: the three steps in order; a step that raises ends the call.
\* Gives the items, the environment and the counters it leaves, the exception,
\* and for the record the items _evaluate_jobs started from and jobs_to_remove.
prepare_run_with(d, forced, env, job_id, pipeline_id, ref, source, message, sha, tag) ==
  PrepareInfo(_pipeline_add_buildinfo(d, forced, ref, source, message, sha, tag),
              env, job_id, pipeline_id)


(***************************************************************************)
(* Inputs                                                                  *)
(***************************************************************************)
Script == Item(JOBKEY_SCRIPT, PyList(<<PyStr(<<"m", "a", "k", "e">>)>>))

Only(tokens) == Item(JOBKEY_ONLY, PyList(tokens))

Dependencies(names) == Item(JOBKEY_DEPENDENCIES, PyList(names))

Variables(items) == Item(JOBKEY_VARIABLES, PyDict(items))

VarX == PyStr(<<"X">>)

\* the bodies a job is declared with
JobBodies ==
  {PyDict(<<Script>>),
   PyDict(<<Item(JOBKEY_STAGE, PyStr(<<>>)), Script>>),
   PyDict(<<Item(JOBKEY_STAGE, PyStr(<<"b", "u", "i", "l", "d">>)), Item(JOBKEY_SCRIPT, PyStr(<<"m", "a", "k", "e">>))>>),
   PyDict(<<Item(JOBKEY_SCRIPT, PyDict(<<Item(PyStr(<<"r", "u", "n">>), PyStr(<<"m", "a", "k", "e">>))>>))>>),
   PyDict(<<Script, Item(JOBKEY_ARTIFACTS, PyList(<<PyStr(<<"d", "i", "s", "t">>)>>))>>),
   PyDict(<<Script, Item(JOBKEY_ARTIFACTS,
                         PyDict(<<Item(JOBKEY_ARTIFACTS_EXPIRE_IN, PyStr(<<"1", " ", "w", "e", "e", "k">>))>>))>>),
   PyDict(<<Script, Only(<<PyStr(<<"t", "r", "i", "g", "g", "e", "r", "s">>)>>)>>),
   PyDict(<<Script, Only(<<PyStr(<<"t", "a", "g", "s">>)>>)>>),
   PyDict(<<Script, Only(<<PyStr(<<"m", "a", "i", "n">>)>>)>>),
   PyDict(<<Script, Only(<<PyStr(<<"m", "a", "i", "n">>), PyStr(<<"$", "X">>)>>)>>),
   PyDict(<<Script, Only(<<PyStr(<<"m", "a", "i", "n">>), PyStr(<<"$", "X", " ", "=", "=", " ", "1">>)>>)>>),
   PyDict(<<Script, Only(<<PyStr(<<"$", "X", " ", "=", "=", " ", "1">>)>>), Variables(<<Item(VarX, PyStr(<<"1">>))>>)>>),
   PyDict(<<Script, Variables(<<Item(VarX, PyStr(<<"3">>))>>)>>),
   PyDict(<<Script, Dependencies(<<PyStr(<<"a">>)>>)>>),
   PyDict(<<Script, Dependencies(<<PyStr(<<"b">>)>>)>>),
   PyDict(<<Script, Dependencies(<<PyStr(<<"i", "m", "a", "g", "e">>)>>)>>),
   PyDict(<<Dependencies(<<PyStr(<<"b">>)>>)>>),
   PyList(<<PyStr(<<"m", "a", "k", "e">>)>>),
   PyStr(<<"m", "a", "k", "e">>),
   PyNone}

\* the bodies of job a in a document of two jobs
FirstBodies ==
  {PyDict(<<Script>>),
   PyDict(<<Script, Only(<<PyStr(<<"m", "a", "i", "n">>), PyStr(<<"$", "X", " ", "=", "=", " ", "1">>)>>)>>),
   PyDict(<<Script, Variables(<<Item(VarX, PyStr(<<"1">>))>>)>>),
   PyDict(<<Script, Dependencies(<<PyStr(<<"b">>)>>)>>),
   PyDict(<<Dependencies(<<PyStr(<<"b">>)>>)>>)}

\* the bodies of job b in a document of two jobs
SecondBodies ==
  {PyDict(<<Script, Variables(<<Item(VarX, PyStr(<<"1">>))>>)>>),
   PyDict(<<Script, Dependencies(<<PyStr(<<"a">>)>>)>>),
   PyDict(<<Script, Only(<<PyStr(<<"d", "e", "v">>)>>)>>),
   PyDict(<<Script, Only(<<PyStr(<<"m", "a", "i", "n">>), PyStr(<<"$", "X", " ", "=", "=", " ", "1">>)>>)>>)}

\* the pipeline attributes a document declares next to its jobs
PipelineParts ==
  {<<Item(PIPELINEKEY_VARIABLES, PyDict(<<Item(VarX, PyStr(<<"1">>))>>))>>,
   <<Item(PIPELINEKEY_STAGES, PyList(<<PyStr(<<"b", "u", "i", "l", "d">>), PyStr(<<"t", "e", "s", "t">>)>>)),
     Item(PIPELINEKEY_BEFORE_SCRIPT, PyList(<<PyStr(<<"s", "e", "t", "u", "p">>)>>))>>,
   <<Item(PIPELINEKEY_STAGES, PyList(<<PyStr(<<"t", "e", "s", "t">>), PyStr(<<"t", "e", "s", "t">>)>>))>>}

JobA == PyStr(<<"a">>)

JobB == PyStr(<<"b">>)

\* the mapping roots: job a alone, jobs a and b, pipeline attributes and a job,
\* a template job, stages given as a str, the empty mapping
Documents ==
  {PyDict(<<Item(JobA, body)>>) : body \in JobBodies}
  \cup {PyDict(<<Item(JobA, a), Item(JobB, b)>>) : a \in FirstBodies, b \in SecondBodies}
  \cup {PyDict(part \o <<Item(JobA, PyDict(<<Script>>))>>) : part \in PipelineParts}
  \cup {PyDict(part \o <<Item(JobA, PyDict(<<Script, Variables(<<Item(VarX, PyStr(<<"3">>))>>)>>))>>) :
          part \in PipelineParts}
  \cup {PyDict(<<Item(PyStr(<<".", "t", "e", "m", "p", "l", "a", "t", "e">>), PyDict(<<Script>>)), Item(JobB, PyDict(<<Script>>))>>),
        PyDict(<<Item(PIPELINEKEY_STAGES, PyStr(<<"b", "u", "i", "l", "d">>))>>),
        PyDict(<<>>)}

\* roots that are no mapping
NonMappingRoots ==
  {PyNone, PyList(<<>>), PyList(<<PyStr(<<"m", "a", "k", "e">>)>>), PyStr(<<>>), PyStr(<<"m", "a", "k", "e">>),
   PyInt(0), PyInt(5)}

\* the variables argument of CiFile()
ForcedVariables ==
  {PyDict(<<>>),
   PyDict(<<Item(VarX, PyStr(<<"2">>))>>),
   PyDict(<<Item(VarX, PyStr(<<>>))>>),
   PyDict(<<Item(PyStr(<<"C", "I", "_", "C", "O", "M", "M", "I", "T", "_", "R", "E", "F", "_", "N", "A", "M", "E">>), PyStr(<<"f", "o", "r", "c", "e", "d">>))>>)}

\* the process environment before the calls
NoEnv == <<>>

\* the arguments of prepare_run_with
RunContexts ==
  {[ref |-> <<"m", "a", "i", "n">>, source |-> s, tag |-> PyNone] : s \in TriggerSources \cup {<<"p", "u", "s", "h">>}}
  \cup {[ref |-> <<"d", "e", "v">>, source |-> <<"p", "u", "s", "h">>, tag |-> PyNone],
        [ref |-> <<"m", "a", "i", "n">>, source |-> <<"p", "u", "s", "h">>, tag |-> PyStr(<<"v", "1">>)],
        [ref |-> <<>>, source |-> <<"p", "u", "s", "h">>, tag |-> PyNone]}

CommitMessage == <<"f", "i", "x", " ", "b", "u", "i", "l", "d", "\n", "\n", "d", "e", "t", "a", "i", "l", "s">>

CommitSha == <<"0", "a", "1", "b", "2", "c">>

\* the last ids the IdGenerator is seeded with
JobIdSeeds == {0, 9}

PipelineIdSeeds == {4}

(***************************************************************************)
(* State                                                                   *)
(***************************************************************************)
VARIABLES
  cidict,            \* the items of self._cidict
  forced_variables,  \* self._forced_variables
  environ,           \* os.environ of the process, a function from names to values
  last_job_id,       \* IdGenerator._last_job_id
  last_pipeline_id,  \* IdGenerator._last_pipeline_id
  lock,              \* IdGenerator._lock: the thread that holds it, 0 when free
  phase,             \* "new", "read", "prepared", "closed" when the run is over,
                     \* "failed" after an exception that left the structure half done;
                     \* "pruning", "pruned" where the dependency loop is taken alone
  raised,            \* the exception the last call raised, NoError when none
  last,              \* the last call and its arguments (for prepare_run_with also
                     \* the root that was read before it)
  prev,              \* cidict as it was before the last call
  prevEnv,           \* environ as it was before the last call
  evaluated,         \* the items _evaluate_jobs started from in the last run
  jobs_to_remove,    \* jobs_to_remove of the last run
  returned,          \* the value the caller holds from get_cidict or convert_to_matrix
  pc,                \* per thread: where it is in next_job_id / next_pipeline_id:
                     \* "idle", "load", "store", "ret", "release"
  counter,           \* per thread: the counter its call is on
  loaded,            \* per thread: the value its increment has read
  ret,               \* per thread: the local ret
  results,           \* per thread: the calls it has completed, in order
  seed,              \* the last ids the IdGenerator was constructed with
  passes             \* the removing passes the dependency loop of _evaluate_jobs has
                     \* made, where the loop is taken one pass at a time

vars ==
  <<cidict, forced_variables, environ, last_job_id, last_pipeline_id, lock, phase,
    raised, last, prev, prevEnv, evaluated, jobs_to_remove, returned, pc, counter,
    loaded, ret, results, seed, passes>>

cifileVars ==
  <<cidict, forced_variables, environ, phase, raised, last, prev, prevEnv, evaluated,
    jobs_to_remove, returned, passes>>

threadVars == <<lock, pc, counter, loaded, ret, results, seed>>

NumThreads == 2

MaxCalls == 4

Threads == 1..NumThreads

NoCall == [op |-> "none", dictionary |-> PyNone, ref |-> <<>>, source |-> <<>>,
           tag |-> PyNone, what |-> "none"]

NothingReturned == [kind |-> "none"]

\* the configurations a CiFile is constructed in: forced variables and the environment
Configurations ==
  {[forced |-> f, env |-> NoEnv] : f \in ForcedVariables}
  \cup {[forced |-> PyDict(<<>>), env |-> e] : e \in {NoEnv, <<"X">> :> <<"1">>}}

InitThreads ==
  /\ lock = 0
  /\ pc = [t \in Threads |-> "idle"]
  /\ counter = [t \in Threads |-> "job"]
  /\ loaded = [t \in Threads |-> 0]
  /\ ret = [t \in Threads |-> 0]
  /\ results = [t \in Threads |-> <<>>]
  /\ seed = [job |-> last_job_id, pipeline |-> last_pipeline_id]

InitCiFile ==
  /\ cidict = <<>>
  /\ phase = "new"
  /\ raised = NoError
  /\ last = NoCall
  /\ prev = <<>>
  /\ prevEnv = environ
  /\ evaluated = <<>>
  /\ jobs_to_remove = {}
  /\ returned = NothingReturned
  /\ passes = 0

\* a new CiFile with a new IdGenerator
Init ==
  /\ \E c \in Configurations : forced_variables = c.forced /\ environ = c.env
  /\ last_job_id = 0
  /\ last_pipeline_id = 0
  /\ InitCiFile
  /\ InitThreads

(***************************************************************************)
(* CiFile operations, each a whole call                                    *)
(***************************************************************************)
\* read_cifile(dictionary=dictionary).  A new CiFile reads any root; a CiFile
\* that has read one is given the roots that are no mapping.  The run ends
\* after a second read and after a root that was refused.  A caller that holds a returned structure has made
\* its calls before it asked for the structure.
ReadCifile(dictionary) ==
  /\ phase = "new" \/ (phase = "read" /\ dictionary \in NonMappingRoots)
  /\ returned = NothingReturned
  /\ \E r \in {read_cifile(dictionary, cidict, forced_variables)} :
        /\ cidict' = r.d
        /\ raised' = r.err
        /\ phase' = IF r.err # NoError /\ dictionary.t = "dict" THEN "failed"
                    ELSE IF phase = "new" /\ r.err = NoError THEN "read"
                    ELSE "closed"
  /\ last' = [NoCall EXCEPT !.op = "read_cifile", !.dictionary = dictionary]
  /\ prev' = cidict
  /\ prevEnv' = environ
  /\ returned' = NothingReturned
  /\ UNCHANGED <<forced_variables, environ, last_job_id, last_pipeline_id, evaluated,
                 jobs_to_remove, passes, threadVars>>

\* read_cifile(dictionary=get_cidict()): the CiFile reads a copy of its own structure
ReadOwnCidict ==
  /\ phase = "read"
  /\ last.op = "read_cifile"
  /\ returned = NothingReturned
  /\ \E r \in {read_cifile(PyDict(cidict), cidict, forced_variables)} :
        /\ cidict' = r.d
        /\ raised' = r.err
        /\ phase' = IF r.err = NoError THEN "closed" ELSE "failed"
  /\ last' = [NoCall EXCEPT !.op = "read_own", !.dictionary = PyDict(cidict)]
  /\ prev' = cidict
  /\ prevEnv' = environ
  /\ returned' = NothingReturned
  /\ UNCHANGED <<forced_variables, environ, last_job_id, last_pipeline_id, evaluated,
                 jobs_to_remove, passes, threadVars>>

\* prepare_run_with(ref, source, CommitMessage, CommitSha, tag)
PrepareRunWith(ctx) ==
  /\ phase = "read"
  /\ returned = NothingReturned
  /\ \E r \in {prepare_run_with(cidict, forced_variables, environ, last_job_id,
                                last_pipeline_id, ctx.ref, ctx.source, CommitMessage,
                                CommitSha, ctx.tag)} :
        /\ cidict' = r.d
        /\ environ' = r.env
        /\ last_job_id' = r.last_job_id
        /\ last_pipeline_id' = r.last_pipeline_id
        /\ raised' = r.err
        /\ evaluated' = r.evaluated
        /\ jobs_to_remove' = r.remove
        /\ phase' = IF r.err = NoError THEN "prepared" ELSE "failed"
  /\ last' = [NoCall EXCEPT !.op = "prepare_run_with", !.dictionary = last.dictionary,
                            !.ref = ctx.ref, !.source = ctx.source, !.tag = ctx.tag]
  /\ prev' = cidict
  /\ prevEnv' = environ
  /\ returned' = NothingReturned
  /\ UNCHANGED <<forced_variables, passes, threadVars>>

\* get_cidict(): the caller gets a deep copy
GetCidict ==
  /\ phase \in {"read", "prepared"}
  /\ returned = NothingReturned
  /\ returned' = [kind |-> "cidict", value |-> cidict]
  /\ raised' = NoError
  /\ last' = [NoCall EXCEPT !.op = "get_cidict"]
  /\ prev' = cidict
  /\ prevEnv' = environ
  /\ UNCHANGED <<cidict, forced_variables, environ, last_job_id, last_pipeline_id, phase,
                 evaluated, jobs_to_remove, passes, threadVars>>

\* convert_to_matrix(): the caller gets a new dict and new groups, whose stages
\* list and whose jobs are the objects of self._cidict
ConvertToMatrix ==
  /\ phase \in {"read", "prepared"}
  /\ returned = NothingReturned
  /\ \E m \in {convert_to_matrix(cidict)} :
        /\ raised' = m.err
        /\ returned' = IF m.err = NoError
                         THEN [kind |-> "matrix", image |-> Get(cidict, PIPELINEKEY_IMAGE),
                               jobs |-> m.jobs]
                         ELSE NothingReturned
  /\ last' = [NoCall EXCEPT !.op = "convert_to_matrix"]
  /\ prev' = cidict
  /\ prevEnv' = environ
  /\ UNCHANGED <<cidict, forced_variables, environ, last_job_id, last_pipeline_id, phase,
                 evaluated, jobs_to_remove, passes, threadVars>>

\* the names of the jobs with a dict body among items d
DictJobNames(d_0) ==
  CHOOSE value_0 \in {(
                         {d[i].k : i \in {j \in 1..Len(d) : IsDictJob(d, j)}}
    ) : d \in {d_0}} : TRUE

\* what a mutation through a held reference does to the dict d the reference is into:
\* "stages": d[stages].append("extra"); "job": d[name][script] = [];
\* "variables": d[name][variables]["MUTATED"] = "1"
Mutated(d_0, what_0, name_0) ==
  CHOOSE value_0 \in {(
        CASE what = "stages" ->
               Put(d, PIPELINEKEY_STAGES, PyList(Append(Get(d, PIPELINEKEY_STAGES).l, PyStr(<<"e", "x", "t", "r", "a">>))))
          [] what = "job" ->
               Put(d, name, PyDict(Put(Get(d, name).m, JOBKEY_SCRIPT, PyList(<<>>))))
          [] what = "variables" ->
               Put(d, name, PyDict(Put(Get(d, name).m, JOBKEY_VARIABLES,
                                       PyDict(Put(Get(Get(d, name).m, JOBKEY_VARIABLES).m,
                                                  PyStr(<<"M", "U", "T", "A", "T", "E", "D">>), PyStr(<<"1">>))))))
    ) : d \in {d_0}, what \in {what_0}, name \in {name_0}} : TRUE

\* the caller changes the structure it was handed.  In a copy from get_cidict the
\* change stays in the copy.  In a matrix the stages list and the jobs are
\* references (lines 119 and 126), a group is the caller's own dict.
MutateReturned(what, name) ==
  /\ returned # NothingReturned
  /\ last.op \in {"get_cidict", "convert_to_matrix"}
  /\ what \in {"stages", "job", "variables", "group"}
  /\ what = "stages" => /\ HasKey(cidict, PIPELINEKEY_STAGES)
                        /\ Get(cidict, PIPELINEKEY_STAGES).t = "list"
                        /\ name = PyNone
  /\ what # "stages" => name \in DictJobNames(cidict)
  /\ what = "group" => returned.kind = "matrix"
  /\ IF returned.kind = "cidict"
       THEN /\ returned' = [returned EXCEPT !.value = Mutated(returned.value, what, name)]
            /\ cidict' = cidict
       ELSE IF what \in {"stages", "job", "variables"}
         THEN /\ cidict' = Mutated(cidict, what, name)
              /\ returned' = returned
         ELSE /\ returned' = [returned EXCEPT !.jobs =
                               [i \in 1..Len(returned.jobs) |->
                                  SelectSeq(returned.jobs[i], LAMBDA n : n # name)]]
              /\ cidict' = cidict
  /\ last' = [NoCall EXCEPT !.op = "mutate", !.what = what]
  /\ prev' = cidict
  /\ prevEnv' = environ
  /\ raised' = NoError
  /\ UNCHANGED <<forced_variables, environ, last_job_id, last_pipeline_id, phase,
                 evaluated, jobs_to_remove, passes, threadVars>>

(***************************************************************************)
(* IdGenerator: next_job_id and next_pipeline_id called from threads       *)
(***************************************************************************)
Counters == {"job", "pipeline"}

\* can a thread enter "with self._lock"
LockUnguarded(l) == TRUE

LockAvailable(l) == l = 0

CounterValue(c) == IF c = "job" THEN last_job_id ELSE last_pipeline_id

\* the calls the threads have made, returned or not
CallsMade ==
  Cardinality({call \in Threads \X (1..MaxCalls) : call[2] <= Len(results[call[1]])})
  + Cardinality({t \in Threads : pc[t] # "idle"})

\* a thread calls next_job_id() or next_pipeline_id() and enters "with self._lock"
Acquire(t, c) ==
  /\ pc[t] = "idle"
  /\ CallsMade < MaxCalls
  /\ LockAvailable(lock)
  /\ lock' = t
  /\ counter' = [counter EXCEPT ![t] = c]
  /\ pc' = [pc EXCEPT ![t] = "load"]
  /\ UNCHANGED <<cifileVars, last_job_id, last_pipeline_id, loaded, ret, results, seed>>

\* self._last_x_id += 1, the read
Load(t) ==
  /\ pc[t] = "load"
  /\ loaded' = [loaded EXCEPT ![t] = CounterValue(counter[t])]
  /\ pc' = [pc EXCEPT ![t] = "store"]
  /\ UNCHANGED <<cifileVars, last_job_id, last_pipeline_id, lock, counter, ret, results, seed>>

\* self._last_x_id += 1, the write
Store(t) ==
  /\ pc[t] = "store"
  /\ IF counter[t] = "job"
       THEN last_job_id' = loaded[t] + 1 /\ UNCHANGED last_pipeline_id
       ELSE last_pipeline_id' = loaded[t] + 1 /\ UNCHANGED last_job_id
  /\ pc' = [pc EXCEPT ![t] = "ret"]
  /\ UNCHANGED <<cifileVars, lock, counter, loaded, ret, results, seed>>

\* ret = self._last_x_id
ReadBack(t) ==
  /\ pc[t] = "ret"
  /\ ret' = [ret EXCEPT ![t] = CounterValue(counter[t])]
  /\ pc' = [pc EXCEPT ![t] = "release"]
  /\ UNCHANGED <<cifileVars, last_job_id, last_pipeline_id, lock, counter, loaded, results, seed>>

\* the thread leaves "with self._lock" and returns ret; its locals end with the call
Release(t) ==
  /\ pc[t] = "release"
  /\ lock' = 0
  /\ results' = [results EXCEPT ![t] = Append(results[t], [counter |-> counter[t], id |-> ret[t]])]
  /\ pc' = [pc EXCEPT ![t] = "idle"]
  /\ loaded' = [loaded EXCEPT ![t] = 0]
  /\ ret' = [ret EXCEPT ![t] = 0]
  /\ UNCHANGED <<cifileVars, last_job_id, last_pipeline_id, counter, seed>>

(***************************************************************************)
(* Specifications                                                          *)
(***************************************************************************)
\* one CiFile used by one caller
Next ==
  \/ \E dictionary \in Documents \cup NonMappingRoots : ReadCifile(dictionary)
  \/ ReadOwnCidict
  \/ \E ctx \in RunContexts : PrepareRunWith(ctx)
  \/ GetCidict
  \/ ConvertToMatrix
  \/ \E what \in {"stages", "job", "variables", "group"} :
       \E name \in DictJobNames(cidict) \cup {PyNone} : MutateReturned(what, name)

Spec == Init /\ [][Next]_vars

\* one IdGenerator, seeded, shared by threads
InitIds ==
  /\ forced_variables = PyDict(<<>>)
  /\ environ = NoEnv
  /\ last_job_id \in JobIdSeeds
  /\ last_pipeline_id \in PipelineIdSeeds
  /\ InitCiFile
  /\ InitThreads

NextIds ==
  \/ \E t \in Threads : \E c \in Counters : Acquire(t, c)
  \/ \E t \in Threads : Load(t)
  \/ \E t \in Threads : Store(t)
  \/ \E t \in Threads : ReadBack(t)
  \/ \E t \in Threads : Release(t)

SpecIds == InitIds /\ [][NextIds]_vars


(***************************************************************************)
(* The dependency loop of _evaluate_jobs, one pass at a time               *)
(***************************************************************************)
MaxJobs == 3

\* the names of the jobs of a document of MaxJobs jobs
PruneNames == Take(<<JobA, JobB, PyStr(<<"c">>), PyStr(<<"d">>)>>, MaxJobs)

\* the bodies of these jobs: a script, with or without a dependency on one of
\* the names (its own included), with or without only = ["dev"]
PruneBodies ==
  LET deps == {<<>>} \cup {<<Dependencies(<<PruneNames[i]>>)>> : i \in 1..MaxJobs}
      only == {<<>>, <<Only(<<PyStr(<<"d", "e", "v">>)>>)>>}
  IN {PyDict(<<Script>> \o o \o d) : o \in only, d \in deps}

PruneDocuments ==
  {PyDict([i \in 1..MaxJobs |-> Item(PruneNames[i], body[i])]) :
     body \in [1..MaxJobs -> PruneBodies]}

\* prepare_run_with("main", "push", CommitMessage, CommitSha) on a new CiFile
\* that has read a document, stopped in _evaluate_jobs where the jobs of
\* jobs_to_remove are gone and the while loop begins
InitPrune ==
  /\ forced_variables = PyDict(<<>>)
  /\ last_job_id = 0
  /\ last_pipeline_id = 0
  /\ \E dictionary \in PruneDocuments :
       \E read \in {read_cifile(dictionary, <<>>, PyDict(<<>>))} :
         \E info \in {_pipeline_add_buildinfo(read.d, PyDict(<<>>), <<"m", "a", "i", "n">>, <<"p", "u", "s", "h">>,
                                              CommitMessage, CommitSha, PyNone)} :
           \E loop \in {EvaluateLoop(info.d, 1, NoEnv, {})} :
             /\ read.err = NoError /\ info.err = NoError /\ loop.err = NoError
             /\ cidict = WithoutJobs(info.d, loop.remove)
             /\ environ = loop.env
             /\ evaluated = info.d
             /\ jobs_to_remove = loop.remove
             /\ prev = read.d
             /\ last = [NoCall EXCEPT !.op = "prepare_run_with", !.dictionary = dictionary,
                                      !.ref = <<"m", "a", "i", "n">>, !.source = <<"p", "u", "s", "h">>]
  /\ phase = "pruning"
  /\ raised = NoError
  /\ prevEnv = NoEnv
  /\ returned = NothingReturned
  /\ passes = 0
  /\ InitThreads

\* a pass of the while loop whose scan sets removedsomething: the dict is
\* rebuilt without that job and the loop goes on
PruneScan ==
  /\ phase = "pruning"
  /\ Truthy(RemovedSomething(cidict))
  /\ cidict' = WithoutJobs(cidict, {RemovedSomething(cidict)})
  /\ passes' = passes + 1
  /\ UNCHANGED <<forced_variables, environ, last_job_id, last_pipeline_id, phase, raised,
                 last, prev, prevEnv, evaluated, jobs_to_remove, returned, threadVars>>

\* a pass whose scan leaves removedsomething False: the loop ends
PruneDone ==
  /\ phase = "pruning"
  /\ ~Truthy(RemovedSomething(cidict))
  /\ phase' = "pruned"
  /\ UNCHANGED <<cidict, forced_variables, environ, last_job_id, last_pipeline_id, raised,
                 last, prev, prevEnv, evaluated, jobs_to_remove, returned, passes,
                 threadVars>>

NextPrune == PruneScan \/ PruneDone

SpecPrune == InitPrune /\ [][NextPrune]_vars

(***************************************************************************)
(* Properties of read_cifile                                               *)
(***************************************************************************)
\* the last call was read_cifile on a mapping root and it returned
ReadMapping ==
  /\ last.op = "read_cifile"
  /\ last.dictionary.t = "dict"
  /\ raised = NoError

\* the last call was prepare_run_with and it returned
Prepared == last.op = "prepare_run_with" /\ raised = NoError

\* is v a list
IsList(v) == v.t = "list"

\* has the dict job a list under key
HasList(job, key) == HasKey(job.m, key) /\ IsList(Get(job.m, key))

\* has the dict job a dict under key that holds every one of keys
HasRecord(job, key, keys) ==
  /\ HasKey(job.m, key)
  /\ Get(job.m, key).t = "dict"
  /\ \A k \in keys : HasKey(Get(job.m, key).m, k)

\* the normal form of a job of the structure d
JobWellFormed(d, job) ==
  /\ job.t = "dict"
  /\ HasKey(job.m, JOBKEY_STAGE)
  /\ HasKey(d, PIPELINEKEY_STAGES)
  /\ IsList(Get(d, PIPELINEKEY_STAGES))
  /\ SeqContains(Get(d, PIPELINEKEY_STAGES).l, Get(job.m, JOBKEY_STAGE))
  /\ HasList(job, JOBKEY_SCRIPT)
  /\ HasList(job, JOBKEY_TAGS)
  /\ HasList(job, JOBKEY_DEPENDENCIES)
  /\ HasRecord(job, JOBKEY_ARTIFACTS,
               {JOBKEY_ARTIFACTS_NAME, JOBKEY_ARTIFACTS_EXPIRE_IN, JOBKEY_ARTIFACTS_PATHS})
  /\ HasRecord(job, JOBKEY_ONLY, {JOBKEY_ONLY_REFS, JOBKEY_ONLY_VARIABLES})

\* C1: read_cifile on a root that is no mapping (a list, an empty list, a str, a
\* number, None) raises TypeError and leaves the structure as it was before the call.
C1_NonMappingRootRaises ==
  (last.op = "read_cifile" /\ last.dictionary.t # "dict")
    => (raised = "TypeError" /\ cidict = prev)

\* C2: after read_cifile on a mapping root every job has a stage that is in the
\* stages list, a list script, list tags and dependencies, artifacts with name,
\* expire_in and paths, and only with refs and variables.
C2_JobsWellFormed ==
  ReadMapping =>
    \A i \in 1..Len(cidict) : IsJobKey(cidict[i].k) => JobWellFormed(cidict, cidict[i].v)

\* C3: a mutation of a value that get_cidict or convert_to_matrix returned leaves
\* the structure of the CiFile as it was, so a later accessor returns what it
\* returned before.
C3_ReturnedValuesAreCopies == last.op = "mutate" => cidict = prev

\* d1 == d2 for dicts: same keys, same values, order ignored
DictEq(d1, d2) ==
  /\ KeySet(d1) = KeySet(d2)
  /\ \A k \in KeySet(d1) : Get(d1, k) = Get(d2, k)

\* the fields of job name in d that two normal forms are compared on
JobFields(d, name) ==
  LET job == Get(d, name).m
      only == Get(job, JOBKEY_ONLY).m
      artifacts == Get(job, JOBKEY_ARTIFACTS).m
  IN [stage |-> Get(job, JOBKEY_STAGE),
      script |-> Get(job, JOBKEY_SCRIPT),
      tags |-> Get(job, JOBKEY_TAGS),
      dependencies |-> Get(job, JOBKEY_DEPENDENCIES),
      refs |-> Get(only, JOBKEY_ONLY_REFS),
      conditions |-> Get(only, JOBKEY_ONLY_VARIABLES),
      name |-> Get(artifacts, JOBKEY_ARTIFACTS_NAME),
      expire_in |-> Get(artifacts, JOBKEY_ARTIFACTS_EXPIRE_IN),
      paths |-> Get(artifacts, JOBKEY_ARTIFACTS_PATHS)]

\* are the structures d1 and d2 equal in stages, image, the names of the jobs and
\* every field of every job
SameFields(d1, d2) ==
  /\ Get(d1, PIPELINEKEY_STAGES) = Get(d2, PIPELINEKEY_STAGES)
  /\ Get(d1, PIPELINEKEY_IMAGE) = Get(d2, PIPELINEKEY_IMAGE)
  /\ DictJobNames(d1) = DictJobNames(d2)
  /\ \A name \in DictJobNames(d1) :
       /\ JobFields(d1, name) = JobFields(d2, name)
       /\ DictEq(Get(Get(d1, name).m, JOBKEY_VARIABLES).m,
                 Get(Get(d2, name).m, JOBKEY_VARIABLES).m)

\* C7: read_cifile on the structure get_cidict returns after a read gives a
\* structure equal to it in every field: normalization is idempotent.
C7_ReadIsIdempotent ==
  (last.op = "read_own" /\ raised = NoError /\ Len(prev) > 0) => SameFields(cidict, prev)

\* the value of variable X that job name has in d, None when it has none
JobValue(d, name, X) ==
  LET job == Get(d, name)
  IN IF job.t = "dict" /\ HasKey(job.m, JOBKEY_VARIABLES)
        /\ Get(job.m, JOBKEY_VARIABLES).t = "dict"
        /\ HasKey(Get(job.m, JOBKEY_VARIABLES).m, X)
       THEN Get(Get(job.m, JOBKEY_VARIABLES).m, X)
       ELSE PyNone

\* the value the root declares for X at pipeline level, None when it declares none
PipelineValue(root, X) ==
  IF HasKey(root.m, PIPELINEKEY_VARIABLES) /\ Get(root.m, PIPELINEKEY_VARIABLES).t = "dict"
     /\ HasKey(Get(root.m, PIPELINEKEY_VARIABLES).m, X)
    THEN Get(Get(root.m, PIPELINEKEY_VARIABLES).m, X)
    ELSE PyNone

\* the value of X by priority: forced, then declared by the job, then by the pipeline
PriorityValue(root, name, X) ==
  IF HasKey(forced_variables.m, X) THEN Get(forced_variables.m, X)
  ELSE IF HasKey(root.m, name) /\ JobValue(root.m, name, X) # PyNone
    THEN JobValue(root.m, name, X)
  ELSE PipelineValue(root, X)

\* the variable names a root and the forced variables speak of
VariableNames(root) ==
  KeySet(forced_variables.m)
  \cup {X \in {VarX} : \E name \in KeySet(root.m) :
          JobValue(root.m, name, X) # PyNone \/ PipelineValue(root, X) # PyNone}

\* C8: a job's value of X is the forced value when X is forced, else the value
\* the job declares, else the pipeline's; after prepare_run_with a forced value
\* is still the job's value.
C8_ForcedVariablesWin ==
  /\ ReadMapping =>
       \A name \in DictJobNames(cidict) : \A X \in VariableNames(last.dictionary) :
         JobValue(cidict, name, X) = PriorityValue(last.dictionary, name, X)
  /\ Prepared =>
       \A name \in DictJobNames(cidict) : \A X \in KeySet(forced_variables.m) :
         JobValue(cidict, name, X) = Get(forced_variables.m, X)

\* C9: on a mapping root read_cifile returns without raising, and so does the
\* prepare_run_with that follows it.
C9_MappingRootNeverRaises ==
  (last.op \in {"read_cifile", "prepare_run_with"} /\ last.dictionary.t = "dict")
    => raised = NoError

(***************************************************************************)
(* Properties of prepare_run_with                                          *)
(***************************************************************************)
\* is the job kept when it is evaluated alone in an empty process environment:
\* the decision its own variables give
KeptOnOwnVariables(item) == EvaluateLoop(<<item>>, 1, NoEnv, {}).remove = {}

\* C4: the keep/remove decision of a job is the one its own variables give,
\* whatever the variables of the other jobs and the process environment before
\* the call, and the call leaves the process environment as it was.
C4_EvaluationIsIsolated ==
  Prepared =>
    /\ environ = prevEnv
    /\ \A i \in 1..Len(evaluated) :
         IsDictJob(evaluated, i) =>
           ((evaluated[i].k \notin jobs_to_remove) <=> KeptOnOwnVariables(evaluated[i]))

\* C6: after prepare_run_with every dependency of a remaining job is the name
\* of a remaining job, not of a pipeline attribute.
C6_DependenciesRemain ==
  Prepared =>
    \A name \in DictJobNames(cidict) :
      \A j \in 1..Len(Get(Get(cidict, name).m, JOBKEY_DEPENDENCIES).l) :
        Get(Get(cidict, name).m, JOBKEY_DEPENDENCIES).l[j] \in DictJobNames(cidict)

\* is the job one with a script, no dependencies and only.refs = ["triggers"]
TriggersOnly(job) ==
  /\ Truthy(Get(job.m, JOBKEY_SCRIPT))
  /\ Get(job.m, JOBKEY_DEPENDENCIES) = PyList(<<>>)
  /\ Get(Get(job.m, JOBKEY_ONLY).m, JOBKEY_ONLY_REFS) = PyList(<<PyStr(<<"t", "r", "i", "g", "g", "e", "r", "s">>)>>)
  /\ Get(Get(job.m, JOBKEY_ONLY).m, JOBKEY_ONLY_VARIABLES) = PyList(<<>>)

\* C10: a job with a script, no dependencies and only.refs = ["triggers"] is
\* left by prepare_run_with exactly when pipeline_source is one of trigger, api,
\* pipeline, schedule, web.
C10_TriggersNeedTriggerSource ==
  Prepared =>
    \A i \in 1..Len(evaluated) :
      (IsDictJob(evaluated, i) /\ TriggersOnly(evaluated[i].v)) =>
        (HasKey(cidict, evaluated[i].k) <=> last.source \in TriggerSources)

\* is the job one with a script, no dependencies, only.refs = ["main"] and the
\* bare condition $X as its only.variables
BareCondition(job) ==
  /\ Truthy(Get(job.m, JOBKEY_SCRIPT))
  /\ Get(job.m, JOBKEY_DEPENDENCIES) = PyList(<<>>)
  /\ Get(Get(job.m, JOBKEY_ONLY).m, JOBKEY_ONLY_REFS) = PyList(<<PyStr(<<"m", "a", "i", "n">>)>>)
  /\ Get(Get(job.m, JOBKEY_ONLY).m, JOBKEY_ONLY_VARIABLES) = PyList(<<PyStr(<<"$", "X">>)>>)

\* C12: with commit ref "main", a job with a script and only = ["main", "$X"]
\* is left by prepare_run_with exactly when its resolved variables hold X with a
\* non-empty value: $X expands to the job's value of X, or to the empty str when
\* the job has none, and then the bare condition does not match.
C12_UndefinedNameIsEmpty ==
  (Prepared /\ last.ref = <<"m", "a", "i", "n">>) =>
    \A i \in 1..Len(evaluated) :
      (IsDictJob(evaluated, i) /\ BareCondition(evaluated[i].v)) =>
        (HasKey(cidict, evaluated[i].k)
           <=> JobValue(evaluated, evaluated[i].k, VarX) \notin {PyNone, PyStr(<<>>)})

\* has the job an only record with no ref and at least one variable condition
VariablesOnly(job) ==
  /\ Get(Get(job.m, JOBKEY_ONLY).m, JOBKEY_ONLY_REFS) = PyList(<<>>)
  /\ Get(Get(job.m, JOBKEY_ONLY).m, JOBKEY_ONLY_VARIABLES) # PyList(<<>>)

\* C14: a job whose only record has a variable condition and no ref is removed
\* by prepare_run_with, in every run context and for every value of its
\* variables: it is in jobs_to_remove and not in the result.
C14_VariablesOnlyIsRemoved ==
  Prepared =>
    \A i \in 1..Len(evaluated) :
      (IsDictJob(evaluated, i) /\ VariablesOnly(evaluated[i].v)) =>
        (evaluated[i].k \in jobs_to_remove /\ ~HasKey(cidict, evaluated[i].k))

\* prepare_run_with has removed a job with a script, no ref and a variable
\* condition that matches under the job's own variables
C14_Witness ==
  /\ Prepared
  /\ \E i \in 1..Len(evaluated) :
       /\ IsDictJob(evaluated, i)
       /\ VariablesOnly(evaluated[i].v)
       /\ ScriptOk(evaluated[i].v)
       /\ VariablesOk(evaluated[i].v,
                      PutEnv(NoEnv, Get(evaluated[i].v.m, JOBKEY_VARIABLES).m).env)
       /\ ~HasKey(cidict, evaluated[i].k)

(***************************************************************************)
(* Properties of IdGenerator                                               *)
(***************************************************************************)
\* the calls on counter c that have returned, as <<thread, position>>
CompletedCalls(c) ==
  {call \in Threads \X (1..MaxCalls) :
     /\ call[2] <= Len(results[call[1]])
     /\ results[call[1]][call[2]].counter = c}

\* the threads whose call on c holds its id in ret and has not returned
Leaving(c) == {t \in Threads : counter[t] = c /\ pc[t] = "release"}

\* the threads whose call on c has written the counter and has not read it back
Written(c) == {t \in Threads : counter[t] = c /\ pc[t] = "ret"}

\* the ids the calls on c have got so far
IdsGiven(c) ==
  {results[call[1]][call[2]].id : call \in CompletedCalls(c)} \cup {ret[t] : t \in Leaving(c)}

\* C5: the k calls of next_job_id that have got their id hold exactly the ids
\* s+1..s+k for the seed s, each once, under every interleaving; the successive
\* results of one caller increase strictly; the same for next_pipeline_id; and
\* each counter has moved by the calls on it alone.
C5_IdsAreUniqueAndIncreasing ==
  \A c \in Counters :
    LET k == Cardinality(CompletedCalls(c)) + Cardinality(Leaving(c))
    IN /\ IdsGiven(c) = (seed[c] + 1)..(seed[c] + k)
       /\ CounterValue(c) = seed[c] + k + Cardinality(Written(c))
       /\ \A t \in Threads : \A i, j \in 1..Len(results[t]) :
            (i < j /\ results[t][i].counter = c /\ results[t][j].counter = c)
              => results[t][i].id < results[t][j].id

\* two threads have each completed a call of next_job_id and a call of
\* next_pipeline_id, and the job ids of one do not all precede those of the other
C5_Witness ==
  /\ \A t \in Threads : pc[t] = "idle"
  /\ \A t \in {1, 2} : \A c \in Counters : \E i \in 1..Len(results[t]) : results[t][i].counter = c
  /\ \E i \in 1..Len(results[1]), j \in 1..Len(results[2]) :
       /\ results[1][i].counter = "job" /\ results[2][j].counter = "job"
       /\ results[2][j].id < results[1][i].id
  /\ seed.job > 0

(***************************************************************************)
(* Properties of the ids prepare_run_with assigns                          *)
(***************************************************************************)
\* the number a job's variable X holds as a str among the ids a run can issue,
\* -1 when the job holds none of them
IdNumber(d, name, X) ==
  LET issued == {k \in 0..(last_job_id + last_pipeline_id + 1) :
                   JobValue(d, name, X) = PyStr(IntToStr(k))}
  IN IF issued = {} THEN -1 ELSE CHOOSE k \in issued : TRUE

\* the first position of the job's stage in the stages list, 0 when it is not there
StagePosition(d, name) ==
  LET stages == Get(d, PIPELINEKEY_STAGES)
      at == IF stages.t = "list"
              THEN {i \in 1..Len(stages.l) : stages.l[i] = Get(Get(d, name).m, JOBKEY_STAGE)}
              ELSE {}
  IN IF at = {} THEN 0 ELSE CHOOSE i \in at : \A j \in at : i <= j

\* C11: prepare_run_with moves the pipeline counter by 1 and the job counter by
\* the number of jobs it leaves; every job it leaves holds the new pipeline id
\* and a job id of its own among the ids issued; a job of an earlier stage holds
\* a smaller job id than a job of a later stage.
C11_IdsFollowStages ==
  Prepared =>
    LET names == DictJobNames(cidict)
    IN /\ last_pipeline_id = seed.pipeline + 1
       /\ last_job_id = seed.job + Cardinality(names)
       /\ \A name \in names :
            /\ IdNumber(cidict, name, PyStr(<<"C", "I", "_", "P", "I", "P", "E", "L", "I", "N", "E", "_", "I", "D">>)) = last_pipeline_id
            /\ IdNumber(cidict, name, PyStr(<<"C", "I", "_", "J", "O", "B", "_", "I", "D">>)) \in (seed.job + 1)..last_job_id
       /\ \A n1, n2 \in names :
            /\ n1 # n2 => IdNumber(cidict, n1, PyStr(<<"C", "I", "_", "J", "O", "B", "_", "I", "D">>))
                            # IdNumber(cidict, n2, PyStr(<<"C", "I", "_", "J", "O", "B", "_", "I", "D">>))
            /\ StagePosition(cidict, n1) < StagePosition(cidict, n2)
                 => IdNumber(cidict, n1, PyStr(<<"C", "I", "_", "J", "O", "B", "_", "I", "D">>))
                      < IdNumber(cidict, n2, PyStr(<<"C", "I", "_", "J", "O", "B", "_", "I", "D">>))

(***************************************************************************)
(* Properties of the dependency loop                                       *)
(***************************************************************************)
\* the jobs the while loop of _evaluate_jobs began with: the jobs evaluated
\* that were not in jobs_to_remove
JobsLeftAfterFiltering == DictJobNames(WithoutJobs(evaluated, jobs_to_remove))

\* C13: the dependency loop only removes jobs and never adds one, and it makes
\* at most N removing passes for the N jobs it began with, whatever the
\* dependencies say, cyclic and self-referential ones included: so it ends.
C13_PruningIsBounded ==
  phase \in {"pruning", "pruned"} =>
    /\ passes <= Cardinality(JobsLeftAfterFiltering)
    /\ DictJobNames(cidict) \subseteq JobsLeftAfterFiltering
    /\ Cardinality(DictJobNames(cidict)) + passes = Cardinality(JobsLeftAfterFiltering)
    /\ phase = "pruned" => ~Truthy(RemovedSomething(cidict))

\* every job declared depends on a declared job, so the declarations hold a
\* cycle; one job of the cycle was not eligible, and the loop has ended after
\* as many removing passes as it began with jobs, two of them
C13_Witness ==
  /\ phase = "pruned"
  /\ \A i \in 1..Len(evaluated) :
       IsDictJob(evaluated, i) =>
         \E name \in DictJobNames(evaluated) :
           Get(evaluated[i].v.m, JOBKEY_DEPENDENCIES) = PyList(<<name>>)
  /\ Cardinality(JobsLeftAfterFiltering) = 2
  /\ passes = 2
  /\ DictJobNames(cidict) = {}
=============================================================================
